---- MODULE Spec2Model ----
(***************************************************************************)
(* Model of the retro-gaming analytics core: the CSV reader                *)
(* (csv_parser.py) and the relational operators of DataFrame               *)
(* (dataframe.py).                                                         *)
(*                                                                         *)
(* Text is a sequence of one-character strings.  A Python value is a       *)
(* tagged record: None, int, float or str.  Python lists are objects of a  *)
(* heap, so that aliasing between a source DataFrame and the DataFrame an  *)
(* operator returns is part of the state.                                  *)
(***************************************************************************)
EXTENDS Integers, Sequences, FiniteSets, TLC

VARIABLES heap, tables, parser, last, given

vars == <<heap, tables, parser, last, given>>

(***************************************************************************)
(* Characters and text                                                     *)
(***************************************************************************)

\* The characters the model uses, in code point order.  The last four stand
\* for U+00E2, U+0153, U+20AC and U+2122 (the bytes of a mis-decoded quote).
CodePoints ==
    << "\t", "\n", " ", "\"", "'", "+", ",", "-", ".", "/",
       "0", "1", "2", "3", "4", "5", "6", "7", "8", "9",
       ";", "<", "=", ">",
       "A", "B", "C", "D", "E", "F", "G", "H", "I", "J", "K", "L", "M",
       "N", "O", "P", "Q", "R", "S", "T", "U", "V", "W", "X", "Y", "Z",
       "\\", "_",
       "a", "b", "c", "d", "e", "f", "g", "h", "i", "j", "k", "l", "m",
       "n", "o", "p", "q", "r", "s", "t", "u", "v", "w", "x", "y", "z",
       "|", "a_circ", "oe_lig", "euro", "tm" >>

Ord(c) == CHOOSE i \in 1..Len(CodePoints) : CodePoints[i] = c

UpperLetters ==
    << "A", "B", "C", "D", "E", "F", "G", "H", "I", "J", "K", "L", "M",
       "N", "O", "P", "Q", "R", "S", "T", "U", "V", "W", "X", "Y", "Z" >>

LowerLetters ==
    << "a", "b", "c", "d", "e", "f", "g", "h", "i", "j", "k", "l", "m",
       "n", "o", "p", "q", "r", "s", "t", "u", "v", "w", "x", "y", "z" >>

Digits == << "0", "1", "2", "3", "4", "5", "6", "7", "8", "9" >>

IsDigit(c) == \E i \in 1..10 : Digits[i] = c

DigitVal(c) == (CHOOSE i \in 1..10 : Digits[i] = c) - 1

\* str.isspace for the characters of the model
IsSpace(c) == c \in {" ", "\t", "\n"}

\* the lower-case letter of each upper-case letter
LowerOf ==
    [c \in {UpperLetters[i] : i \in 1..26} |->
        LowerLetters[CHOOSE i \in 1..26 : UpperLetters[i] = c]]

\* str.lower on one character
LowerChar(c) == IF c \in DOMAIN LowerOf THEN LowerOf[c] ELSE c

\* str.lower
Lower(s) == [i \in 1..Len(s) |-> LowerChar(s[i])]

\* the first index from i on that holds no white space, or Len(s) + 1
RECURSIVE SkipSpace(_, _)
SkipSpace(s, i) == IF i <= Len(s) /\ IsSpace(s[i]) THEN SkipSpace(s, i + 1) ELSE i

\* the last index up to i that holds no white space, or 0
RECURSIVE SkipSpaceBack(_, _)
SkipSpaceBack(s, i) == IF i >= 1 /\ IsSpace(s[i]) THEN SkipSpaceBack(s, i - 1) ELSE i

\* str.strip()
Strip(s) ==
    IF s = <<>> \/ (~IsSpace(s[1]) /\ ~IsSpace(s[Len(s)])) THEN s
    ELSE SubSeq(s, SkipSpace(s, 1), SkipSpaceBack(s, Len(s)))

RECURSIVE SkipChar(_, _, _)
SkipChar(s, c, i) == IF i <= Len(s) /\ s[i] = c THEN SkipChar(s, c, i + 1) ELSE i

RECURSIVE SkipCharBack(_, _, _)
SkipCharBack(s, c, i) == IF i >= 1 /\ s[i] = c THEN SkipCharBack(s, c, i - 1) ELSE i

\* str.strip(c) for a one-character argument
StripChar(s, c) ==
    IF s = <<>> \/ (s[1] # c /\ s[Len(s)] # c) THEN s
    ELSE SubSeq(s, SkipChar(s, c, 1), SkipCharBack(s, c, Len(s)))

\* s[i:] starts with pat
StartsAt(s, i, pat) ==
    /\ i + Len(pat) - 1 <= Len(s)
    /\ \A k \in 1..Len(pat) : s[i + k - 1] = pat[k]

\* pat in s
Contains(s, pat) == \E i \in 1..(Len(s) + 1) : StartsAt(s, i, pat)

\* str.replace(pat, rep) for a non-empty pat: leftmost, non-overlapping;
\* from index i, with the text copied so far starting at index start
RECURSIVE ReplaceFrom(_, _, _, _, _)
ReplaceFrom(s, pat, rep, i, start) ==
    IF i + Len(pat) - 1 > Len(s) THEN SubSeq(s, start, Len(s))
    ELSE IF StartsAt(s, i, pat)
         THEN SubSeq(s, start, i - 1) \o rep
              \o ReplaceFrom(s, pat, rep, i + Len(pat), i + Len(pat))
         ELSE ReplaceFrom(s, pat, rep, i + 1, start)

Replace(s, pat, rep) == IF Contains(s, pat) THEN ReplaceFrom(s, pat, rep, 1, 1) ELSE s

\* str.split(sep) for a non-empty sep; from index i, with the current part
\* starting at index start
RECURSIVE SplitFrom(_, _, _, _)
SplitFrom(s, sep, i, start) ==
    IF i + Len(sep) - 1 > Len(s) THEN <<SubSeq(s, start, Len(s))>>
    ELSE IF StartsAt(s, i, sep)
         THEN <<SubSeq(s, start, i - 1)>> \o SplitFrom(s, sep, i + Len(sep), i + Len(sep))
         ELSE SplitFrom(s, sep, i + 1, start)

Split(s, sep) == SplitFrom(s, sep, 1, 1)

\* the value of a string of decimal digits
RECURSIVE DigitsValue(_)
DigitsValue(s) ==
    IF s = <<>> THEN 0
    ELSE 10 * DigitsValue(SubSeq(s, 1, Len(s) - 1)) + DigitVal(s[Len(s)])

AllDigits(s) == \A i \in 1..Len(s) : IsDigit(s[i])

\* the decimal digits of a natural number
RECURSIVE NatText(_)
NatText(n) ==
    IF n < 10 THEN <<Digits[n + 1]>> ELSE Append(NatText(n \div 10), Digits[(n % 10) + 1])

\* str(n) for an int
IntText(n) == IF n < 0 THEN <<"-">> \o NatText(-n) ELSE NatText(n)

\* lexicographic order of str by code point: s < t
RECURSIVE TextLess(_, _)
TextLess(s, t) ==
    IF t = <<>> THEN FALSE
    ELSE IF s = <<>> THEN TRUE
    ELSE IF Head(s) = Head(t) THEN TextLess(Tail(s), Tail(t))
    ELSE Ord(Head(s)) < Ord(Head(t))

(***************************************************************************)
(* Values                                                                  *)
(***************************************************************************)

None == [t |-> "None"]

IntV(n) == [t |-> "int", i |-> n]

RECURSIVE GCD(_, _)
GCD(a, b) == IF b = 0 THEN a ELSE GCD(b, a % b)

Abs(n) == IF n < 0 THEN -n ELSE n

\* a float as the fraction n / d in lowest terms, d > 0.  The floats of the
\* model are the ones float() reads from short decimal literals and the
\* quotients the aggregates form from them.
FloatV(n, d) ==
    LET g == GCD(Abs(n), d)
    IN  IF n = 0 THEN [t |-> "float", n |-> 0, d |-> 1]
        ELSE [t |-> "float", n |-> n \div g, d |-> d \div g]

StrV(s) == [t |-> "str", s |-> s]

IsNone(v) == v.t = "None"

IsNumber(v) == v.t \in {"int", "float"}

RECURSIVE Pow10(_)
Pow10(n) == IF n = 0 THEN 1 ELSE 10 * Pow10(n - 1)

\* a number as the pair <<numerator, denominator>>
Num(v) == IF v.t = "int" THEN <<v.i, 1>> ELSE <<v.n, v.d>>

\* a == b in Python: int and float compare by value; str only equals str
PyEq(a, b) ==
    IF IsNumber(a) /\ IsNumber(b)
    THEN Num(a)[1] * Num(b)[2] = Num(b)[1] * Num(a)[2]
    ELSE a = b

\* a < b raises TypeError unless both are numbers or both are str
Orderable(a, b) == (IsNumber(a) /\ IsNumber(b)) \/ (a.t = "str" /\ b.t = "str")

\* a < b in Python, for orderable a and b
PyLess(a, b) ==
    IF IsNumber(a)
    THEN Num(a)[1] * Num(b)[2] < Num(b)[1] * Num(a)[2]
    ELSE TextLess(a.s, b.s)

\* the number of decimal places of a fraction with a power of ten as a multiple
\* of its denominator
RECURSIVE Places(_, _)
Places(d, k) == IF Pow10(k) % d = 0 THEN k ELSE Places(d, k + 1)

\* str(v); a float prints in positional notation
PyStr(v) ==
    CASE v.t = "None" -> <<"N", "o", "n", "e">>
      [] v.t = "int" -> IntText(v.i)
      [] v.t = "str" -> v.s
      [] v.t = "float" ->
            LET sign == IF v.n < 0 THEN <<"-">> ELSE <<>>
                Text(k, a) ==
                    IF k = 0 THEN sign \o NatText(a) \o <<".", "0">>
                    ELSE sign \o NatText(a \div Pow10(k)) \o <<".">>
                         \o Tail(NatText(Pow10(k) + (a % Pow10(k))))
                Scaled(k) == Text(k, Abs(v.n) * (Pow10(k) \div v.d))
            IN  Scaled(Places(v.d, 0))

\* the text of a decimal literal as float() reads it:
\* [sign] (digits [. digits*] | . digits) [e [sign] digits]
FloatParts(s) ==
    LET Signed(t) == t # <<>> /\ t[1] \in {"+", "-"}
        Negative(t) == Signed(t) /\ t[1] = "-"
        Unsigned(t) == IF Signed(t) THEN Tail(t) ELSE t
        First(t, c) == IF \E i \in 1..Len(t) : t[i] = c
                       THEN CHOOSE i \in 1..Len(t) : t[i] = c /\ \A j \in 1..(i - 1) : t[j] # c
                       ELSE 0
        Before(t, pos) == IF pos = 0 THEN t ELSE SubSeq(t, 1, pos - 1)
        After(t, pos) == IF pos = 0 THEN <<>> ELSE SubSeq(t, pos + 1, Len(t))
        Parts(neg, whole, frac, epos, eneg, edig) ==
            [ ok |-> /\ AllDigits(whole) /\ AllDigits(frac)
                     /\ Len(whole) + Len(frac) > 0
                     /\ (epos = 0 \/ (edig # <<>> /\ AllDigits(edig))),
              neg |-> neg, whole |-> whole, frac |-> frac,
              eneg |-> eneg, edig |-> edig ]
        AtDot(neg, mant, dpos, epos, expo) ==
            Parts(neg, Before(mant, dpos), After(mant, dpos), epos, Negative(expo), Unsigned(expo))
        Mantissa(neg, mant, epos, expo) == AtDot(neg, mant, First(mant, "."), epos, expo)
        AtE(neg, body, epos) == Mantissa(neg, Before(body, epos), epos, After(body, epos))
        Body(neg, body) == AtE(neg, body, First(body, "e"))
        Low(low) == Body(Negative(low), Unsigned(low))
    IN  Low(Lower(s))

IsFloatText(s) == FloatParts(s).ok

\* float(s) for a text float() accepts
FloatOf(s) ==
    LET Scale(m, k) == IF k >= 0 THEN FloatV(m, Pow10(k)) ELSE FloatV(m * Pow10(-k), 1)
        Value(p) ==
            Scale(DigitsValue(p.whole \o p.frac) * (IF p.neg THEN -1 ELSE 1),
                  Len(p.frac) - DigitsValue(p.edig) * (IF p.eneg THEN -1 ELSE 1))
    IN  Value(FloatParts(s))

\* the text of an integer literal as int() reads it: [sign] digits
IsIntText(s) ==
    LET u == Strip(s)
        body == IF u # <<>> /\ u[1] \in {"+", "-"} THEN Tail(u) ELSE u
    IN  body # <<>> /\ AllDigits(body)

\* int(s) for a text int() accepts
IntOf(s) ==
    LET u == Strip(s)
        neg == u[1] = "-"
        body == IF u[1] \in {"+", "-"} THEN Tail(u) ELSE u
    IN  IF neg THEN -DigitsValue(body) ELSE DigitsValue(body)

(***************************************************************************)
(* csv_parser.py                                                           *)
(***************************************************************************)

quote_char == "\""

escape_char == "\\"

\* the candidates of detect_delimiter, in declaration order
delimiters == << ",", ";", "\t", "|" >>

\* the sentinels clean_field turns into None
MissingValues ==
    { <<>>, <<"n", "/", "a">>, <<"n", "a">>, <<"n", "u", "l", "l">>,
      <<"n", "o", "n", "e">>, <<"u", "n", "k", "n", "o", "w", "n">>,
      <<"t", "b", "d">> }

\* CSVParser.convert_type
convert_type(value) ==
    IF ~Contains(value, <<".">>) /\ value # <<>> /\ AllDigits(value)
    THEN IntV(DigitsValue(value))
    ELSE IF (Contains(value, <<".">>) \/ Contains(Lower(value), <<"e">>)) /\ IsFloatText(value)
         THEN FloatOf(value)
         ELSE StrV(value)

\* clean_field comparing the text with the missing values without lower()
clean_field_NoLower(field) ==
    LET f0 == Strip(field)
        f1 == Replace(f0, <<"a_circ", "euro", "tm">>, <<"'">>)
        f2 == Replace(f1, <<"a_circ", "euro", "oe_lig">>, <<"\"">>)
        f3 == Replace(f2, <<"a_circ", "euro">>, <<"\"">>)
    IN  IF f3 \in MissingValues THEN None ELSE convert_type(f3)

\* CSVParser.clean_field
clean_field(field) ==
    LET f0 == Strip(field)
        f1 == Replace(f0, <<"a_circ", "euro", "tm">>, <<"'">>)
        f2 == Replace(f1, <<"a_circ", "euro", "oe_lig">>, <<"\"">>)
        f3 == Replace(f2, <<"a_circ", "euro">>, <<"\"">>)
    IN  IF Lower(f3) \in MissingValues THEN None ELSE convert_type(f3)

\* the while loop of CSVParser.parse_line, from index i (1-based)
RECURSIVE ParseLineLoop(_, _, _, _, _, _)
ParseLineLoop(line, d, i, fields, current_field, in_quotes) ==
    IF i > Len(line)
    THEN Append(fields, clean_field(current_field))
    ELSE LET char == line[i] IN
         IF char = quote_char
         THEN IF in_quotes /\ i + 1 <= Len(line) /\ line[i + 1] = quote_char
              THEN ParseLineLoop(line, d, i + 2, fields, Append(current_field, quote_char), in_quotes)
              ELSE ParseLineLoop(line, d, i + 1, fields, current_field, ~in_quotes)
         ELSE IF char = d /\ ~in_quotes
              THEN ParseLineLoop(line, d, i + 1, Append(fields, clean_field(current_field)), <<>>, in_quotes)
              ELSE ParseLineLoop(line, d, i + 1, fields, Append(current_field, char), in_quotes)

\* CSVParser.parse_line with self.delimiter = d
parse_line(line, d) ==
    IF Strip(line) = <<>> THEN <<>> ELSE ParseLineLoop(line, d, 1, <<>>, <<>>, FALSE)

\* the count detect_delimiter makes for one candidate, scanning from index i
RECURSIVE DelimiterCount(_, _, _, _)
DelimiterCount(sample_line, delimiter, i, in_quotes) ==
    IF i > Len(sample_line) THEN 0
    ELSE LET char == sample_line[i] IN
         IF char = quote_char /\ (i = 1 \/ sample_line[i - 1] # escape_char)
         THEN DelimiterCount(sample_line, delimiter, i + 1, ~in_quotes)
         ELSE IF char = delimiter /\ ~in_quotes
              THEN 1 + DelimiterCount(sample_line, delimiter, i + 1, in_quotes)
              ELSE DelimiterCount(sample_line, delimiter, i + 1, in_quotes)

\* CSVParser.detect_delimiter: max() returns the first key with the highest count
detect_delimiter(sample_line) ==
    LET count(k) == DelimiterCount(sample_line, delimiters[k], 1, FALSE)
        best == CHOOSE k \in 1..Len(delimiters) :
                    /\ \A j \in 1..Len(delimiters) : count(j) <= count(k)
                    /\ \A j \in 1..(k - 1) : count(j) < count(k)
    IN  delimiters[best]

\* FitRow without the truncation of a long row
FitRow_NoTruncate(row, width) ==
    row \o [k \in 1..(IF Len(row) < width THEN width - Len(row) ELSE 0) |-> None]

\* FitRow putting the None values before the fields of a short row
FitRow_PadFront(row, width) ==
    LET padded == [k \in 1..(IF Len(row) < width THEN width - Len(row) ELSE 0) |-> None] \o row
    IN  IF Len(padded) > width THEN SubSeq(padded, 1, width) ELSE padded

\* the padding and truncation of one parsed row to the header width
FitRow(row, width) ==
    LET padded == row \o [k \in 1..(IF Len(row) < width THEN width - Len(row) ELSE 0) |-> None]
    IN  IF Len(padded) > width THEN SubSeq(padded, 1, width) ELSE padded

\* the data loop appending a row for a blank line as well
RECURSIVE ParseRows_KeepBlank(_, _, _, _)
ParseRows_KeepBlank(lines, from, d, width) ==
    IF from > Len(lines) THEN <<>>
    ELSE LET row == parse_line(lines[from], d)
             rest == ParseRows_KeepBlank(lines, from + 1, d, width)
         IN  <<FitRow(row, width)>> \o rest

\* the data loop of CSVParser.parse_file over lines[from..]
RECURSIVE ParseRows(_, _, _, _)
ParseRows(lines, from, d, width) ==
    IF from > Len(lines) THEN <<>>
    ELSE LET row == parse_line(lines[from], d)
             rest == ParseRows(lines, from + 1, d, width)
         IN  IF row # <<>> THEN <<FitRow(row, width)>> \o rest ELSE rest

\* "column_<i>"
DefaultHeader(i) == StrV(<<"c", "o", "l", "u", "m", "n", "_">> \o NatText(i))

\* CSVParser.parse_file on the decoded lines of a file; self_delimiter is the
\* parser's delimiter before the call.  The result carries the delimiter the
\* parser holds after the call.
parse_file(self_delimiter, lines, has_header, auto_detect_delimiter) ==
    IF lines = <<>>
    THEN [headers |-> <<>>, data |-> <<>>, keys |-> {"headers", "data"},
          self_delimiter |-> self_delimiter]
    ELSE LET d == IF auto_detect_delimiter THEN detect_delimiter(lines[1]) ELSE self_delimiter
             first == parse_line(lines[1], d)
             headers == IF has_header THEN first
                        ELSE [k \in 1..Len(first) |-> DefaultHeader(k - 1)]
             data == ParseRows(lines, IF has_header THEN 2 ELSE 1, d, Len(headers))
         IN  [headers |-> headers, data |-> data, delimiter |-> d,
              rows_parsed |-> Len(data),
              keys |-> {"headers", "data", "delimiter", "rows_parsed"},
              self_delimiter |-> d]

(***************************************************************************)
(* dataframe.py: the heap and the DataFrame object                         *)
(***************************************************************************)

\* A DataFrame holds two references: its columns list and its data list; the
\* data list holds references to row lists.  heap[r] is the list at r.
NoTable == [columns |-> 0, data |-> 0]

Ok(h, df) == [heap |-> h, status |-> "ok", ret |-> df]

Raise(h, error) == [heap |-> h, status |-> error, ret |-> NoTable]

\* the rows of a data list, dereferenced
RowsOf(h, data) == [i \in 1..Len(h[data]) |-> h[h[data][i]]]

\* what a caller reads from a DataFrame: its column names and its rows
View(h, df) == [columns |-> h[df.columns], rows |-> RowsOf(h, df.data)]

\* v in list
In(v, list) == \E i \in 1..Len(list) : PyEq(list[i], v)

\* list.index(v), for v in list
Index(list, v) == CHOOSE i \in 1..Len(list) : PyEq(list[i], v) /\ \A j \in 1..(i - 1) : ~PyEq(list[j], v)

\* DataFrame._validate_structure: TRUE when it raises nothing
validate_structure(h, data, columns) ==
    (h[data] # <<>> /\ h[columns] # <<>>)
        => \A i \in 1..Len(h[data]) : Len(h[h[data][i]]) = Len(h[columns])

\* DataFrame.__init__(data, columns) on two lists of the heap
DataFrame(h, data, columns) ==
    IF validate_structure(h, data, columns)
    THEN Ok(h, [columns |-> columns, data |-> data])
    ELSE Raise(h, "ValueError")

\* DataFrame.from_csv_data on the dictionary parse_file returns: the headers
\* list, the data list and each row list are objects the parser created
from_csv_data(h, csv_data) ==
    LET n == Len(csv_data.data)
        h1 == h \o csv_data.data
        h2 == Append(h1, [i \in 1..n |-> Len(h) + i])
        h3 == Append(h2, csv_data.headers)
    IN  DataFrame(h3, Len(h2), Len(h3))

(***************************************************************************)
(* filter and the predicate evaluator                                      *)
(***************************************************************************)

\* key in row_dict, where row_dict = dict(zip(columns, row))
HasKey(columns, row, key) ==
    \E i \in 1..Len(columns) : i <= Len(row) /\ PyEq(columns[i], key)

\* row_dict[key]: the last pair of zip(columns, row) with that key
RowGet(columns, row, key) ==
    LET i == CHOOSE k \in 1..Len(columns) :
                 /\ k <= Len(row) /\ PyEq(columns[k], key)
                 /\ \A j \in (k + 1)..Len(columns) : ~(j <= Len(row) /\ PyEq(columns[j], key))
    IN  row[i]

\* DataFrame._parse_literal
parse_literal(value) ==
    LET v == StripChar(StripChar(Strip(value), "\""), "'")
    IN  IF IsIntText(v) THEN IntV(IntOf(v))
        ELSE IF IsFloatText(Strip(v)) THEN FloatOf(Strip(v))
        ELSE StrV(v)

\* the end of a match of \s+word\s+ that starts at s[i], or 0; low is s in
\* lower case (the match ignores case)
MatchEnd(s, low, word, i) ==
    IF ~IsSpace(s[i]) THEN 0
    ELSE LET j == SkipSpace(s, i)
         IN  IF /\ StartsAt(low, j, word)
                /\ j + Len(word) <= Len(s)
                /\ IsSpace(s[j + Len(word)])
             THEN SkipSpace(s, j + Len(word)) - 1
             ELSE 0

\* re.split(r'\s+word\s+', s, flags=re.IGNORECASE); from index i, with the
\* current part starting at index start
RECURSIVE ReSplitFrom(_, _, _, _, _)
ReSplitFrom(s, low, word, i, start) ==
    IF i > Len(s) THEN <<SubSeq(s, start, Len(s))>>
    ELSE LET e == MatchEnd(s, low, word, i)
         IN  IF e > 0
             THEN <<SubSeq(s, start, i - 1)>> \o ReSplitFrom(s, low, word, e + 1, e + 1)
             ELSE ReSplitFrom(s, low, word, i + 1, start)

ReSplit(s, word) == ReSplitFrom(s, Lower(s), word, 1, 1)

\* the operators of a single condition, in the order they are tried
operators ==
    << <<">", "=">>, <<"<", "=">>, <<"!", "=">>, <<"=", "=">>, <<">">>, <<"<">>, <<"=">> >>

OpGe == <<">", "=">>
OpLe == <<"<", "=">>
OpNe == <<"!", "=">>
OpEq2 == <<"=", "=">>
OpGt == <<">">>
OpLt == <<"<">>
OpEq1 == <<"=">>

\* the comparison with None never equal to None
compare_NoneNeverEqual(op, left_val, right_val) ==
    IF IsNone(left_val) \/ IsNone(right_val)
    THEN op = OpNe
    ELSE IF op \in {OpEq2, OpEq1} THEN PyEq(left_val, right_val)
    ELSE IF op = OpNe THEN ~PyEq(left_val, right_val)
    ELSE IF Orderable(left_val, right_val)
         THEN CASE op = OpGt -> PyLess(right_val, left_val)
                [] op = OpLt -> PyLess(left_val, right_val)
                [] op = OpGe -> ~PyLess(left_val, right_val)
                [] op = OpLe -> ~PyLess(right_val, left_val)
         ELSE PyStr(left_val) # PyStr(right_val)

\* the comparison made once the operator and both values are known
compare(op, left_val, right_val) ==
    IF IsNone(left_val) \/ IsNone(right_val)
    THEN IF op \in {OpNe, OpEq2, OpEq1}
         THEN IF op \in {OpEq2, OpEq1}
              THEN IsNone(left_val) = IsNone(right_val)
              ELSE IsNone(left_val) # IsNone(right_val)
         ELSE FALSE
    ELSE IF op \in {OpEq2, OpEq1} THEN PyEq(left_val, right_val)
    ELSE IF op = OpNe THEN ~PyEq(left_val, right_val)
    ELSE IF Orderable(left_val, right_val)
         THEN CASE op = OpGt -> PyLess(right_val, left_val)
                [] op = OpLt -> PyLess(left_val, right_val)
                [] op = OpGe -> ~PyLess(left_val, right_val)
                [] op = OpLe -> ~PyLess(right_val, left_val)
         ELSE \* TypeError: the except branch
              PyStr(left_val) # PyStr(right_val)

\* the loop taking an operator that occurs more than once in the condition
RECURSIVE single_condition_AnyCount(_, _, _, _)
single_condition_AnyCount(condition, columns, row, k) ==
    IF k > Len(operators) THEN FALSE
    ELSE LET op == operators[k]
             parts == Split(condition, op)
         IN  IF Contains(condition, op) /\ Len(parts) >= 2
             THEN LET left == StrV(Strip(parts[1]))
                      right == StrV(Strip(parts[2]))
                  IN  IF ~HasKey(columns, row, left) THEN FALSE
                      ELSE compare(op,
                                   RowGet(columns, row, left),
                                   IF HasKey(columns, row, right)
                                   THEN RowGet(columns, row, right)
                                   ELSE parse_literal(right.s))
             ELSE single_condition_AnyCount(condition, columns, row, k + 1)

\* the loop over the operators of a single condition, from operators[k]
RECURSIVE single_condition(_, _, _, _)
single_condition(condition, columns, row, k) ==
    IF k > Len(operators) THEN FALSE
    ELSE LET op == operators[k]
             parts == Split(condition, op)
         IN  IF Contains(condition, op) /\ Len(parts) = 2
             THEN LET left == StrV(Strip(parts[1]))
                      right == StrV(Strip(parts[2]))
                  IN  IF ~HasKey(columns, row, left) THEN FALSE
                      ELSE compare(op,
                                   RowGet(columns, row, left),
                                   IF HasKey(columns, row, right)
                                   THEN RowGet(columns, row, right)
                                   ELSE parse_literal(right.s))
             ELSE single_condition(condition, columns, row, k + 1)

\* _evaluate_condition looking for "or" before "and"
RECURSIVE evaluate_condition_OrFirst(_, _, _)
evaluate_condition_OrFirst(condition, columns, row) ==
    IF Contains(Lower(condition), <<" ", "o", "r", " ">>)
    THEN LET parts == ReSplit(condition, <<"o", "r">>)
         IN  \E i \in 1..Len(parts) : evaluate_condition_OrFirst(Strip(parts[i]), columns, row)
    ELSE IF Contains(Lower(condition), <<" ", "a", "n", "d", " ">>)
    THEN LET parts == ReSplit(condition, <<"a", "n", "d">>)
         IN  \A i \in 1..Len(parts) : evaluate_condition_OrFirst(Strip(parts[i]), columns, row)
    ELSE single_condition(condition, columns, row, 1)

\* _evaluate_condition asking for one true part of an "and"
RECURSIVE evaluate_condition_AndAny(_, _, _)
evaluate_condition_AndAny(condition, columns, row) ==
    IF Contains(Lower(condition), <<" ", "a", "n", "d", " ">>)
    THEN LET parts == ReSplit(condition, <<"a", "n", "d">>)
         IN  \E i \in 1..Len(parts) : evaluate_condition_AndAny(Strip(parts[i]), columns, row)
    ELSE IF Contains(Lower(condition), <<" ", "o", "r", " ">>)
    THEN LET parts == ReSplit(condition, <<"o", "r">>)
         IN  \E i \in 1..Len(parts) : evaluate_condition_AndAny(Strip(parts[i]), columns, row)
    ELSE single_condition(condition, columns, row, 1)

\* DataFrame._evaluate_condition against row_dict = dict(zip(columns, row))
RECURSIVE evaluate_condition(_, _, _)
evaluate_condition(condition, columns, row) ==
    IF Contains(Lower(condition), <<" ", "a", "n", "d", " ">>)
    THEN LET parts == ReSplit(condition, <<"a", "n", "d">>)
         IN  \A i \in 1..Len(parts) : evaluate_condition(Strip(parts[i]), columns, row)
    ELSE IF Contains(Lower(condition), <<" ", "o", "r", " ">>)
    THEN LET parts == ReSplit(condition, <<"o", "r">>)
         IN  \E i \in 1..Len(parts) : evaluate_condition(Strip(parts[i]), columns, row)
    ELSE single_condition(condition, columns, row, 1)

\* DataFrame.filter with a string condition: the rows kept are the same row
\* objects, and the new DataFrame is given the source's columns list itself
filter(h, self, condition) ==
    LET Keep(r) == evaluate_condition(condition, h[self.columns], h[r])
        filtered_data == SelectSeq(h[self.data], Keep)
        h1 == Append(h, filtered_data)
    IN  DataFrame(h1, Len(h1), self.columns)

(***************************************************************************)
(* select, head, tail, sort_values                                         *)
(***************************************************************************)

\* select returning its rows last first
select_RowsReversed(h, self, columns) ==
    IF \E k \in 1..Len(columns) : ~In(columns[k], h[self.columns])
    THEN Raise(h, "KeyError")
    ELSE LET col_indices == [k \in 1..Len(columns) |-> Index(h[self.columns], columns[k])]
             n == Len(h[self.data])
             selected == [i \in 1..n |->
                            [k \in 1..Len(col_indices) |->
                                h[h[self.data][n + 1 - i]][col_indices[k]]]]
             h1 == h \o selected
             h2 == Append(h1, [i \in 1..n |-> Len(h) + i])
             h3 == Append(h2, columns)
         IN  DataFrame(h3, Len(h2), Len(h3))

\* DataFrame.select; columns is the list the caller passes
select(h, self, columns) ==
    IF \E k \in 1..Len(columns) : ~In(columns[k], h[self.columns])
    THEN Raise(h, "KeyError")
    ELSE LET col_indices == [k \in 1..Len(columns) |-> Index(h[self.columns], columns[k])]
             n == Len(h[self.data])
             selected == [i \in 1..n |->
                            [k \in 1..Len(col_indices) |-> h[h[self.data][i]][col_indices[k]]]]
             h1 == h \o selected
             h2 == Append(h1, [i \in 1..n |-> Len(h) + i])
             h3 == Append(h2, columns)
         IN  DataFrame(h3, Len(h2), Len(h3))

\* list[:n]
SliceTo(list, n) ==
    IF n >= 0 THEN SubSeq(list, 1, IF n < Len(list) THEN n ELSE Len(list))
    ELSE SubSeq(list, 1, Len(list) + n)

\* list[n:]
SliceFrom(list, n) ==
    IF n >= 0 THEN SubSeq(list, n + 1, Len(list))
    ELSE SubSeq(list, (IF Len(list) + n < 0 THEN 0 ELSE Len(list) + n) + 1, Len(list))

\* DataFrame.head
head(h, self, n) ==
    LET h1 == Append(h, SliceTo(h[self.data], n))
    IN  DataFrame(h1, Len(h1), self.columns)

\* DataFrame.tail
tail(h, self, n) ==
    LET h1 == Append(h, SliceFrom(h[self.data], -n))
    IN  DataFrame(h1, Len(h1), self.columns)

\* (a is None, a) < (b is None, b), for keys that can be ordered
KeyLess(a, b) ==
    IF IsNone(a) THEN FALSE
    ELSE IF IsNone(b) THEN TRUE
    ELSE PyLess(a, b)

\* comparing the two keys raises TypeError
KeyClash(a, b) == ~IsNone(a) /\ ~IsNone(b) /\ ~Orderable(a, b)

Reverse(list) == [i \in 1..Len(list) |-> list[Len(list) + 1 - i]]

\* one element inserted after every element not greater than it
RECURSIVE InsertSorted(_, _, _, _)
InsertSorted(sorted, x, h, col_idx) ==
    IF sorted = <<>> THEN <<x>>
    ELSE IF KeyLess(h[x][col_idx], h[Head(sorted)][col_idx])
         THEN <<x>> \o sorted
         ELSE <<Head(sorted)>> \o InsertSorted(Tail(sorted), x, h, col_idx)

\* a stable ascending sort of row references by the key column
RECURSIVE StableSort(_, _, _)
StableSort(list, h, col_idx) ==
    IF list = <<>> THEN <<>>
    ELSE InsertSorted(StableSort(SubSeq(list, 1, Len(list) - 1), h, col_idx),
                      list[Len(list)], h, col_idx)

\* sorted_rows with the reverse order made by reversing the ascending result
sorted_rows_ReverseAfter(list, h, col_idx, reverse) ==
    IF reverse THEN Reverse(StableSort(list, h, col_idx))
    ELSE StableSort(list, h, col_idx)

\* sorted(list, key=..., reverse=...): a reverse sort keeps equal keys in
\* their original order (the list is reversed before and after the sort)
sorted_rows(list, h, col_idx, reverse) ==
    IF reverse THEN Reverse(StableSort(Reverse(list), h, col_idx))
    ELSE StableSort(list, h, col_idx)

\* DataFrame.sort_values
sort_values(h, self, by, ascending) ==
    IF ~In(by, h[self.columns]) THEN Raise(h, "KeyError")
    ELSE LET col_idx == Index(h[self.columns], by)
             data == h[self.data]
         IN  IF \E i, j \in 1..Len(data) : KeyClash(h[data[i]][col_idx], h[data[j]][col_idx])
             THEN Raise(h, "TypeError")
             ELSE LET h1 == Append(h, sorted_rows(data, h, col_idx, ~ascending))
                  IN  DataFrame(h1, Len(h1), self.columns)

(***************************************************************************)
(* join                                                                    *)
(***************************************************************************)

Suffix == <<"_", "r", "i", "g", "h", "t">>

\* join_columns testing a right column against the left columns only
join_columns_LeftOnly(new_columns, other_columns) ==
    new_columns \o [k \in 1..Len(other_columns) |->
                      IF In(other_columns[k], new_columns)
                      THEN StrV(PyStr(other_columns[k]) \o Suffix)
                      ELSE other_columns[k]]

\* the loop that builds new_columns: a right column is appended as it is
\* unless the list built so far already holds it
RECURSIVE join_columns(_, _)
join_columns(new_columns, other_columns) ==
    IF other_columns = <<>> THEN new_columns
    ELSE LET col == Head(other_columns)
         IN  IF ~In(col, new_columns)
             THEN join_columns(Append(new_columns, col), Tail(other_columns))
             ELSE join_columns(Append(new_columns, StrV(PyStr(col) \o Suffix)), Tail(other_columns))

\* matches_of stopping at the first right row with an equal key
RECURSIVE matches_of_FirstOnly(_, _, _, _)
matches_of_FirstOnly(left_row, right_rows, left_idx, right_idx) ==
    IF right_rows = <<>> THEN <<>>
    ELSE IF PyEq(left_row[left_idx], Head(right_rows)[right_idx])
         THEN <<left_row \o Head(right_rows)>>
         ELSE matches_of_FirstOnly(left_row, Tail(right_rows), left_idx, right_idx)

\* matches_of with a None key equal to no key
RECURSIVE matches_of_NoneUnequal(_, _, _, _)
matches_of_NoneUnequal(left_row, right_rows, left_idx, right_idx) ==
    IF right_rows = <<>> THEN <<>>
    ELSE LET right_row == Head(right_rows)
             rest == matches_of_NoneUnequal(left_row, Tail(right_rows), left_idx, right_idx)
         IN  IF ~IsNone(left_row[left_idx]) /\ PyEq(left_row[left_idx], right_row[right_idx])
             THEN <<left_row \o right_row>> \o rest
             ELSE rest

\* the combined rows one left row gives: one per right row with an equal key
RECURSIVE matches_of(_, _, _, _)
matches_of(left_row, right_rows, left_idx, right_idx) ==
    IF right_rows = <<>> THEN <<>>
    ELSE LET right_row == Head(right_rows)
             rest == matches_of(left_row, Tail(right_rows), left_idx, right_idx)
         IN  IF PyEq(left_row[left_idx], right_row[right_idx])
             THEN <<left_row \o right_row>> \o rest
             ELSE rest

\* unmatched_row with a single None instead of one per right column
unmatched_row_OneNone(left_row, self_columns, other_columns) ==
    Append(left_row, None)

\* the row an unmatched left row gives in a left join
unmatched_row(left_row, self_columns, other_columns) ==
    left_row \o [k \in 1..Len(other_columns) |-> None]

\* joined_rows giving nothing for an unmatched left row, whatever how is
RECURSIVE joined_rows_MatchesOnly(_, _, _, _, _, _, _)
joined_rows_MatchesOnly(left_rows, right_rows, left_idx, right_idx, how, self_columns, other_columns) ==
    IF left_rows = <<>> THEN <<>>
    ELSE matches_of(Head(left_rows), right_rows, left_idx, right_idx)
         \o joined_rows_MatchesOnly(Tail(left_rows), right_rows, left_idx, right_idx, how,
                                    self_columns, other_columns)

\* the outer loop of join over the left rows
RECURSIVE joined_rows(_, _, _, _, _, _, _)
joined_rows(left_rows, right_rows, left_idx, right_idx, how, self_columns, other_columns) ==
    IF left_rows = <<>> THEN <<>>
    ELSE LET left_row == Head(left_rows)
             combined == matches_of(left_row, right_rows, left_idx, right_idx)
             rest == joined_rows(Tail(left_rows), right_rows, left_idx, right_idx, how,
                                 self_columns, other_columns)
         IN  IF how = "left" /\ combined = <<>>
             THEN <<unmatched_row(left_row, self_columns, other_columns)>> \o rest
             ELSE combined \o rest

RECURSIVE Flatten(_)
Flatten(lists) == IF lists = <<>> THEN <<>> ELSE Head(lists) \o Flatten(Tail(lists))

\* join with combined = left_row in place of combined = left_row.copy(): the
\* left row object itself is extended and appended
join_InPlace(h, self, other, on, how) ==
    IF ~In(on, h[self.columns]) THEN Raise(h, "KeyError")
    ELSE IF ~In(on, h[other.columns]) THEN Raise(h, "KeyError")
    ELSE IF how \notin {"inner", "left"} THEN Raise(h, "ValueError")
    ELSE LET left_idx == Index(h[self.columns], on)
             right_idx == Index(h[other.columns], on)
             left == h[self.data]
             Own(ref) == SelectSeq(RowsOf(h, other.data),
                                   LAMBDA right_row : PyEq(h[ref][left_idx], right_row[right_idx]))
             Extended(ref) ==
                 IF Own(ref) # <<>> THEN h[ref] \o Flatten(Own(ref))
                 ELSE IF how = "left" THEN h[ref] \o [k \in 1..Len(h[other.columns]) |-> None]
                 ELSE h[ref]
             Appended(ref) ==
                 IF Own(ref) # <<>> THEN [m \in 1..Len(Own(ref)) |-> ref]
                 ELSE IF how = "left" THEN <<ref>> ELSE <<>>
             h1 == [i \in 1..Len(h) |->
                      IF \E k \in 1..Len(left) : left[k] = i THEN Extended(i) ELSE h[i]]
             h2 == Append(h1, Flatten([k \in 1..Len(left) |-> Appended(left[k])]))
             h3 == Append(h2, join_columns(h[self.columns], h[other.columns]))
         IN  DataFrame(h3, Len(h2), Len(h3))

\* join without the final else branch: a how that is neither "inner" nor
\* "left" gives the rows of an inner join
join_AnyHow(h, self, other, on, how) ==
    IF ~In(on, h[self.columns]) THEN Raise(h, "KeyError")
    ELSE IF ~In(on, h[other.columns]) THEN Raise(h, "KeyError")
    ELSE LET Make(h3) == DataFrame(h3, Len(h3) - 1, Len(h3))
             New(joined_data) ==
                 h \o joined_data
                   \o << [i \in 1..Len(joined_data) |-> Len(h) + i],
                         join_columns(h[self.columns], h[other.columns]) >>
         IN  Make(New(joined_rows(RowsOf(h, self.data), RowsOf(h, other.data),
                                  Index(h[self.columns], on), Index(h[other.columns], on),
                                  how, h[self.columns], h[other.columns])))

\* DataFrame.join: every list of the result is a new object
join(h, self, other, on, how) ==
    IF ~In(on, h[self.columns]) THEN Raise(h, "KeyError")
    ELSE IF ~In(on, h[other.columns]) THEN Raise(h, "KeyError")
    ELSE IF how \notin {"inner", "left"} THEN Raise(h, "ValueError")
    ELSE LET left_idx == Index(h[self.columns], on)
             right_idx == Index(h[other.columns], on)
             new_columns == join_columns(h[self.columns], h[other.columns])
             joined_data == joined_rows(RowsOf(h, self.data), RowsOf(h, other.data),
                                        left_idx, right_idx, how,
                                        h[self.columns], h[other.columns])
             n == Len(joined_data)
             h1 == h \o joined_data
             h2 == Append(h1, [i \in 1..n |-> Len(h) + i])
             h3 == Append(h2, new_columns)
         IN  DataFrame(h3, Len(h2), Len(h3))

(***************************************************************************)
(* group_by and agg                                                        *)
(***************************************************************************)

\* the key of a row: tuple(row[i] for i in by_indices)
GroupKey(row, by_indices) == [k \in 1..Len(by_indices) |-> row[by_indices[k]]]

\* two keys are the same dictionary key
SameKey(a, b) == \A k \in 1..Len(a) : PyEq(a[k], b[k])

\* _create_groups that adds a row to the last group only: a key that comes
\* back after another key starts a second group
RECURSIVE create_groups_Adjacent(_, _, _)
create_groups_Adjacent(rows, by_indices, groups) ==
    IF rows = <<>> THEN groups
    ELSE IF groups # <<>> /\ SameKey(groups[Len(groups)][1], GroupKey(Head(rows), by_indices))
    THEN create_groups_Adjacent(Tail(rows), by_indices,
             [groups EXCEPT ![Len(groups)] = <<@[1], Append(@[2], Head(rows))>>])
    ELSE create_groups_Adjacent(Tail(rows), by_indices,
             Append(groups, <<GroupKey(Head(rows), by_indices), <<Head(rows)>>>>))

\* GroupedDataFrame._create_groups: the groups in the order their keys first
\* occur, each <<key, rows>>
RECURSIVE create_groups(_, _, _)
create_groups(rows, by_indices, groups) ==
    IF rows = <<>> THEN groups
    ELSE LET row == Head(rows)
             key == GroupKey(row, by_indices)
             known == \E g \in 1..Len(groups) : SameKey(groups[g][1], key)
             next == IF known
                     THEN [g \in 1..Len(groups) |->
                              IF SameKey(groups[g][1], key)
                              THEN <<groups[g][1], Append(groups[g][2], row)>>
                              ELSE groups[g]]
                     ELSE Append(groups, <<key, <<row>>>>)
         IN  create_groups(Tail(rows), by_indices, next)

RECURSIVE SumNum(_)
SumNum(values) ==
    IF values = <<>> THEN <<0, 1>>
    ELSE LET a == SumNum(Tail(values))
             b == Num(Head(values))
         IN  <<a[1] * b[2] + b[1] * a[2], a[2] * b[2]>>

\* sum(values): an int when every value is an int
PySum(values) ==
    IF \A i \in 1..Len(values) : values[i].t = "int"
    THEN IntV(SumNum(values)[1])
    ELSE FloatV(SumNum(values)[1], SumNum(values)[2])

\* a / n: true division gives a float
PyDiv(a, n) == FloatV(Num(a)[1], Num(a)[2] * n)

AllNumbers(values) == \A i \in 1..Len(values) : IsNumber(values[i])

AllOrderable(values) == \A i, j \in 1..Len(values) : Orderable(values[i], values[j])

PyMax(values) ==
    values[CHOOSE i \in 1..Len(values) :
              /\ \A j \in 1..Len(values) : ~PyLess(values[i], values[j])
              /\ \A j \in 1..(i - 1) : PyLess(values[j], values[i])]

PyMin(values) ==
    values[CHOOSE i \in 1..Len(values) :
              /\ \A j \in 1..Len(values) : ~PyLess(values[j], values[i])
              /\ \A j \in 1..(i - 1) : PyLess(values[i], values[j])]

RECURSIVE InsertValue(_, _)
InsertValue(sorted, x) ==
    IF sorted = <<>> THEN <<x>>
    ELSE IF PyLess(x, Head(sorted)) THEN <<x>> \o sorted
    ELSE <<Head(sorted)>> \o InsertValue(Tail(sorted), x)

RECURSIVE SortValues(_)
SortValues(values) ==
    IF values = <<>> THEN <<>>
    ELSE InsertValue(SortValues(SubSeq(values, 1, Len(values) - 1)), values[Len(values)])

\* the square root of a fraction that is the square of a fraction
SqrtNum(n, d) ==
    LET r == CHOOSE k \in 0..n : k * k = n
        q == CHOOSE k \in 1..d : k * k = d
    IN  <<r, q>>

F_count == <<"c", "o", "u", "n", "t">>
F_sum == <<"s", "u", "m">>
F_mean == <<"m", "e", "a", "n">>
F_avg == <<"a", "v", "g">>
F_max == <<"m", "a", "x">>
F_min == <<"m", "i", "n">>
F_median == <<"m", "e", "d", "i", "a", "n">>
F_std == <<"s", "t", "d">>

\* GroupedDataFrame._calculate_agg: the value, or the error raised
calculate_agg(values, func) ==
    LET val(v) == [error |-> "", value |-> v]
        err(e) == [error |-> e, value |-> None]
    IN  IF values = <<>> THEN val(None)
        ELSE CASE func = F_count -> val(IntV(Len(values)))
               [] func = F_sum ->
                    IF AllNumbers(values) THEN val(PySum(values)) ELSE err("TypeError")
               [] func \in {F_mean, F_avg} ->
                    IF AllNumbers(values) THEN val(PyDiv(PySum(values), Len(values)))
                    ELSE err("TypeError")
               [] func = F_max ->
                    IF AllOrderable(values) THEN val(PyMax(values)) ELSE err("TypeError")
               [] func = F_min ->
                    IF AllOrderable(values) THEN val(PyMin(values)) ELSE err("TypeError")
               [] func = F_median ->
                    IF ~AllOrderable(values) THEN err("TypeError")
                    ELSE LET n == Len(values)
                             Middle(sorted_vals) ==
                                 IF n % 2 = 0
                                 THEN IF AllNumbers(values)
                                      THEN val(PyDiv(PySum(<<sorted_vals[n \div 2], sorted_vals[(n \div 2) + 1]>>), 2))
                                      ELSE err("TypeError")
                                 ELSE val(sorted_vals[(n \div 2) + 1])
                         IN  Middle(SortValues(values))
               [] func = F_std ->
                    IF ~AllNumbers(values) THEN err("TypeError")
                    ELSE LET n == Len(values)
                             \* (x - mean)^2 for the number x and the sum s of the values
                             Square(x, s) ==
                                 FloatV((x[1] * s[2] * n - s[1] * x[2]) * (x[1] * s[2] * n - s[1] * x[2]),
                                        (x[2] * s[2] * n) * (x[2] * s[2] * n))
                             Squares(s) == SumNum([i \in 1..n |-> Square(Num(values[i]), s)])
                             Root(root) == val(FloatV(root[1], root[2]))
                             Variance(var) == Root(SqrtNum(var.n, var.d))
                             Mean(sq) == Variance(FloatV(sq[1], sq[2] * n))
                         IN  Mean(Squares(SumNum(values)))
               [] OTHER -> err("ValueError")

\* the <<column, function>> requests of an agg_spec, in request order;
\* agg_spec is a sequence of <<column, functions>> with distinct columns
RECURSIVE Requests(_)
Requests(agg_spec) ==
    IF agg_spec = <<>> THEN <<>>
    ELSE [k \in 1..Len(agg_spec[1][2]) |-> <<agg_spec[1][1], agg_spec[1][2][k]>>]
         \o Requests(Tail(agg_spec))

\* the loop handing the None values of the group to the function as well
RECURSIVE agg_funcs_WithNone(_, _, _, _, _)
agg_funcs_WithNone(funcs, rows, col_idx, result_row, k) ==
    IF k > Len(funcs) THEN [error |-> "", row |-> result_row]
    ELSE LET Values(kept) == [i \in 1..Len(kept) |-> kept[i][col_idx]]
             Add(r) == IF r.error # "" THEN [error |-> r.error, row |-> <<>>]
                       ELSE agg_funcs_WithNone(funcs, rows, col_idx, Append(result_row, r.value), k + 1)
         IN  Add(calculate_agg(Values(rows), funcs[k]))

\* the loop over the functions asked of one column, from funcs[k]
RECURSIVE agg_funcs(_, _, _, _, _)
agg_funcs(funcs, rows, col_idx, result_row, k) ==
    IF k > Len(funcs) THEN [error |-> "", row |-> result_row]
    ELSE LET NotNone(row) == ~IsNone(row[col_idx])
             Values(kept) == [i \in 1..Len(kept) |-> kept[i][col_idx]]
             Add(r) == IF r.error # "" THEN [error |-> r.error, row |-> <<>>]
                       ELSE agg_funcs(funcs, rows, col_idx, Append(result_row, r.value), k + 1)
         IN  Add(calculate_agg(Values(SelectSeq(rows, NotNone)), funcs[k]))

\* the result row of one group, or the first error raised while building it
RECURSIVE agg_row(_, _, _, _, _)
agg_row(agg_spec, rows, df_columns, result_row, k) ==
    IF k > Len(agg_spec) THEN [error |-> "", row |-> result_row]
    ELSE IF ~In(agg_spec[k][1], df_columns) THEN [error |-> "KeyError", row |-> <<>>]
    ELSE LET Go(r) == IF r.error # "" THEN r
                      ELSE agg_row(agg_spec, rows, df_columns, r.row, k + 1)
         IN  Go(agg_funcs(agg_spec[k][2], rows, Index(df_columns, agg_spec[k][1]), result_row, 1))

\* the loop of agg over the groups
RECURSIVE agg_rows(_, _, _)
agg_rows(groups, agg_spec, df_columns) ==
    IF groups = <<>> THEN [error |-> "", rows |-> <<>>]
    ELSE LET Rest(first, rest) ==
                 IF rest.error # "" THEN rest
                 ELSE [error |-> "", rows |-> <<first.row>> \o rest.rows]
             First(first) ==
                 IF first.error # "" THEN [error |-> first.error, rows |-> <<>>]
                 ELSE Rest(first, agg_rows(Tail(groups), agg_spec, df_columns))
         IN  First(agg_row(agg_spec, groups[1][2], df_columns, groups[1][1], 1))

\* f"{col}_{func}"
AggName(col, func) == StrV(PyStr(col) \o <<"_">> \o func)

\* DataFrame.group_by(by).agg(agg_spec); by is a list of column names
group_by_agg(h, self, by, agg_spec) ==
    IF \E k \in 1..Len(by) : ~In(by[k], h[self.columns])
    THEN Raise(h, "ValueError")
    ELSE LET by_indices == [k \in 1..Len(by) |-> Index(h[self.columns], by[k])]
             Names(requests) ==
                 by \o [k \in 1..Len(requests) |-> AggName(requests[k][1], requests[k][2])]
             \* the heap with the result rows, the data list and the columns list
             New(result_data, result_columns) ==
                 h \o result_data
                   \o << [i \in 1..Len(result_data) |-> Len(h) + i], result_columns >>
             Make(h3) == DataFrame(h3, Len(h3) - 1, Len(h3))
             Built(result) ==
                 IF result.error # "" THEN Raise(h, result.error)
                 ELSE Make(New(result.rows, Names(Requests(agg_spec))))
         IN  Built(agg_rows(create_groups(RowsOf(h, self.data), by_indices, <<>>),
                            agg_spec, h[self.columns]))

(***************************************************************************)
(* The inputs of the calls                                                 *)
(***************************************************************************)

T_id == StrV(<<"i", "d">>)
T_val == StrV(<<"v", "a", "l">>)
T_score == StrV(<<"s", "c", "o", "r", "e">>)
T_zz == StrV(<<"z", "z">>)

\* the decoded lines of the files that are read, as readlines() returns them
Files ==
    << \* id,val / 1,x
       << <<"i", "d", ",", "v", "a", "l", "\n">>, <<"1", ",", "x", "\n">> >>,
       \* id,score (a header and no data line)
       << <<"i", "d", ",", "s", "c", "o", "r", "e", "\n">> >>,
       \* id,val / 1,x / 2,y
       << <<"i", "d", ",", "v", "a", "l", "\n">>, <<"1", ",", "x", "\n">>, <<"2", ",", "y", "\n">> >>,
       \* id,score / 2,z
       << <<"i", "d", ",", "s", "c", "o", "r", "e", "\n">>, <<"2", ",", "z", "\n">> >>,
       \* a short line, a long line, a blank line, missing values, a tie
       << <<"i", "d", ",", "v", "a", "l", "\n">>, <<"2", "\n">>, <<"\n">>, <<"N", "A", ",", "x", ",", "9", "\n">>, <<"2", ",", "q">> >>,
       \* a blank first line
       << <<"\n">>, <<"1", ",", "x", "\n">> >>,
       \* an empty file
       << >> >>

\* the calls of parse_file: (file, has_header, auto_detect_delimiter)
IngestArgs ==
    { <<f, TRUE, TRUE>> : f \in 1..Len(Files) }
        \cup { <<3, FALSE, TRUE>>, <<5, TRUE, FALSE>> }

SelectArgs == { <<T_val, T_id>>, <<T_id, T_id>>, <<>>, <<T_zz>> }

FilterArgs ==
    { <<"i", "d", " ", ">", "=", " ", "2", " ", "o", "r", " ", "v", "a", "l", " ", "=", "=", " ", "x">>,
      <<"i", "d", " ", ">", " ", "1", " ", "a", "n", "d", " ", "v", "a", "l", " ", "!", "=", " ", "y">> }

SortArgs == { <<T_id, TRUE>>, <<T_val, FALSE>>, <<T_zz, TRUE>> }

HeadArgs == {1}

TailArgs == {1}

JoinArgs == { <<T_id, "inner">>, <<T_id, "left">>, <<T_zz, "left">>, <<T_id, "outer">> }

\* the calls of group_by(by).agg(agg_spec): (by, agg_spec), the agg_spec a
\* sequence of (column, functions) in the order of the dict; the last asks for
\* a function _calculate_agg does not know
AggArgs ==
    { << <<T_id>>, << <<T_val, <<F_count, F_max>>>> >> >>,
      << <<T_val>>, << <<T_id, <<F_sum, F_count>>>> >> >>,
      << <<T_id>>, << <<T_zz, <<F_sum>>>> >> >>,
      << <<T_id>>, << <<T_val, << <<"m", "o", "d", "e">> >>>> >> >> }

\* the number of calls made in one run
MaxCalls == 3

(***************************************************************************)
(* The state machine: a parser object, the DataFrames made so far (each    *)
(* stays referenced by its caller) and the outcome of the last call        *)
(***************************************************************************)

Init ==
    /\ heap = <<>>
    /\ tables = <<>>
    /\ parser = [delimiter |-> ","]
    /\ last = [op |-> "init", status |-> "ok", n |-> 0, src |-> <<>>, args |-> <<>>]
    /\ given = <<>>

\* the call returned r: a returned DataFrame is kept, an error leaves none
Returned(op, r, src, args) ==
    /\ heap' = r.heap
    /\ tables' = IF r.status = "ok" THEN Append(tables, r.ret) ELSE tables
    /\ last' = [op |-> op, status |-> r.status, n |-> last.n + 1, src |-> src, args |-> args]
    /\ UNCHANGED given

\* parser.parse_file(f, has_header, auto_detect_delimiter), then from_csv_data
Ingest(f, has_header, auto_detect) ==
    /\ last.n < MaxCalls
    /\ \E csv_data \in {parse_file(parser.delimiter, Files[f], has_header, auto_detect)} :
         /\ parser' = [delimiter |-> csv_data.self_delimiter]
         /\ \E r \in {from_csv_data(heap, csv_data)} :
              Returned("ingest", r, <<>>, <<f, has_header, auto_detect>>)

Select(s, columns) ==
    /\ last.n < MaxCalls
    /\ \E r \in {select(heap, tables[s], columns)} :
         Returned("select", r, <<s>>, <<columns>>)
    /\ UNCHANGED parser

Filter(s, condition) ==
    /\ last.n < MaxCalls
    /\ \E r \in {filter(heap, tables[s], condition)} :
         Returned("filter", r, <<s>>, <<condition>>)
    /\ UNCHANGED parser

SortValuesCall(s, by, ascending) ==
    /\ last.n < MaxCalls
    /\ \E r \in {sort_values(heap, tables[s], by, ascending)} :
         Returned("sort_values", r, <<s>>, <<by, ascending>>)
    /\ UNCHANGED parser

HeadCall(s, n) ==
    /\ last.n < MaxCalls
    /\ \E r \in {head(heap, tables[s], n)} :
         Returned("head", r, <<s>>, <<n>>)
    /\ UNCHANGED parser

TailCall(s, n) ==
    /\ last.n < MaxCalls
    /\ \E r \in {tail(heap, tables[s], n)} :
         Returned("tail", r, <<s>>, <<n>>)
    /\ UNCHANGED parser

Join(l, r, on, how) ==
    /\ last.n < MaxCalls
    /\ \E res \in {join(heap, tables[l], tables[r], on, how)} :
         Returned("join", res, <<l, r>>, <<on, how>>)
    /\ UNCHANGED parser

GroupByAgg(s, by, agg_spec) ==
    /\ last.n < MaxCalls
    /\ \E r \in {group_by_agg(heap, tables[s], by, agg_spec)} :
         Returned("agg", r, <<s>>, <<by, agg_spec>>)
    /\ UNCHANGED parser

Next ==
    \/ \E a \in IngestArgs : Ingest(a[1], a[2], a[3])
    \/ \E s \in 1..Len(tables), c \in SelectArgs : Select(s, c)
    \/ \E s \in 1..Len(tables), c \in FilterArgs : Filter(s, c)
    \/ \E s \in 1..Len(tables), a \in SortArgs : SortValuesCall(s, a[1], a[2])
    \/ \E s \in 1..Len(tables), n \in HeadArgs : HeadCall(s, n)
    \/ \E s \in 1..Len(tables), n \in TailArgs : TailCall(s, n)
    \/ \E l, r \in 1..Len(tables), a \in JoinArgs : Join(l, r, a[1], a[2])
    \/ \E s \in 1..Len(tables), a \in AggArgs : GroupByAgg(s, a[1], a[2])

Spec == Init /\ [][Next]_vars

(***************************************************************************)
(* Properties of the DataFrames a run returns                              *)
(***************************************************************************)

\* the DataFrame the last call returned
Result == tables[Len(tables)]

ResultView == View(heap, Result)

SourceView(k) == View(heap, tables[last.src[k]])

Distinct(list) == \A i, j \in 1..Len(list) : i # j => list[i] # list[j]

Called(op) == last.op = op /\ last.status = "ok"

\* C1: every row of every DataFrame returned by ingestion or by an operator
\* is as long as the DataFrame's columns list.
C1_RowWidth ==
    \A t \in 1..Len(tables) :
        \A i \in 1..Len(View(heap, tables[t]).rows) :
            Len(View(heap, tables[t]).rows[i]) = Len(View(heap, tables[t]).columns)

\* a join of a joined DataFrame returned rows
C1_Witness ==
    /\ Called("join") /\ last.n = MaxCalls
    /\ Len(tables) = MaxCalls
    /\ ResultView.rows # <<>>
    /\ Len(ResultView.columns) > 4

\* C2: a join of two DataFrames that each have pairwise-distinct column names
\* returns a DataFrame with pairwise-distinct column names.
C2_JoinNamesDistinct ==
    (Called("join") /\ Distinct(SourceView(1).columns) /\ Distinct(SourceView(2).columns))
        => Distinct(ResultView.columns)

\* C3: a call, whether it returns or raises, leaves the columns and the rows of
\* every DataFrame that existed before it as they were.
C3_SourcesUnchanged ==
    [][ /\ Len(tables') >= Len(tables)
        /\ \A t \in 1..Len(tables) :
              /\ tables'[t] = tables[t]
              /\ View(heap', tables[t]) = View(heap, tables[t]) ]_vars

\* a join of a DataFrame that has rows returned rows
C3_Witness ==
    /\ Called("join") /\ ResultView.rows # <<>>
    /\ Len(SourceView(1).rows) > 0

\* the indices of the right rows whose join value equals that of left row i
MatchSet(L, R, li, ri, i) == {j \in 1..Len(R) : PyEq(L[i][li], R[j][ri])}

\* the number of result rows left row i accounts for
BlockSize(L, R, li, ri, how, i) ==
    IF MatchSet(L, R, li, ri, i) # {} THEN Cardinality(MatchSet(L, R, li, ri, i))
    ELSE IF how = "left" THEN 1 ELSE 0

RECURSIVE BlockStart(_, _, _, _, _, _)
BlockStart(L, R, li, ri, how, i) ==
    IF i = 1 THEN 0
    ELSE BlockStart(L, R, li, ri, how, i - 1) + BlockSize(L, R, li, ri, how, i - 1)

\* C8: the rows of a join follow the left rows in order; a left row gives one
\* combined row per right row with an equal join value, in right-row order, or,
\* in a left join with no such right row, itself followed by one None per right
\* column; an inner join gives nothing for such a left row.
C8_JoinRows ==
    Called("join") =>
        LET L == SourceView(1).rows
            R == SourceView(2).rows
            li == Index(SourceView(1).columns, last.args[1])
            ri == Index(SourceView(2).columns, last.args[1])
            how == last.args[2]
            out == ResultView.rows
            nright == Len(SourceView(2).columns)
        IN  /\ Len(out) = BlockStart(L, R, li, ri, how, Len(L) + 1)
            /\ \A i \in 1..Len(L) :
                 LET M == MatchSet(L, R, li, ri, i)
                     at == BlockStart(L, R, li, ri, how, i)
                 IN  /\ \A j \in M :
                          out[at + Cardinality({m \in M : m <= j})] = L[i] \o R[j]
                     /\ (M = {} /\ how = "left") =>
                          out[at + 1] = L[i] \o [k \in 1..nright |-> None]

\* a left join and an inner join with a left row matched twice and a left row
\* matched by no right row
C8_Witness ==
    /\ Called("join")
    /\ LET L == SourceView(1).rows
           R == SourceView(2).rows
           li == Index(SourceView(1).columns, last.args[1])
           ri == Index(SourceView(2).columns, last.args[1])
       IN  /\ \E i \in 1..Len(L) : Cardinality(MatchSet(L, R, li, ri, i)) >= 2
           /\ \E i \in 1..Len(L) : MatchSet(L, R, li, ri, i) = {}
           /\ last.args[2] = "left"

ScenarioC_A == [columns |-> <<T_id, T_val>>, rows |-> << <<IntV(1), StrV(<<"x">>)>> >>]

ScenarioC_B == [columns |-> <<T_id, T_score>>, rows |-> <<>>]

ScenarioC == 
    /\ last.op = "join" /\ last.args = <<T_id, "left">>
    /\ SourceView(1) = ScenarioC_A
    /\ SourceView(2) = ScenarioC_B

\* C9 as stated: the left join of A = [(1, "x")] with the empty B on id is the
\* one row (1, "x", None).
C9_AsStated ==
    ScenarioC => (last.status = "ok" /\ ResultView.rows = << <<IntV(1), StrV(<<"x">>), None>> >>)

\* C9: the left join of A (id, val) = [(1, "x")] with the empty B (id, score)
\* on id returns exactly one row, (1, "x", None, None): None in both right
\* columns, id_right and score.
C9_ScenarioC ==
    ScenarioC =>
        /\ last.status = "ok"
        /\ ResultView.rows = << <<IntV(1), StrV(<<"x">>), None, None>> >>

C9_Witness == ScenarioC /\ last.status = "ok"

WithSuffix(name) == StrV(PyStr(name) \o Suffix)

ScenarioD_A ==
    [columns |-> <<T_id, T_val>>,
     rows |-> << <<IntV(1), StrV(<<"x">>)>>, <<IntV(2), StrV(<<"y">>)>> >>]

ScenarioD_B == [columns |-> <<T_id, T_score>>, rows |-> << <<IntV(2), StrV(<<"z">>)>> >>]

ScenarioD ==
    /\ last.op = "join" /\ last.args = <<T_id, "inner">>
    /\ SourceView(1) = ScenarioD_A
    /\ SourceView(2) = ScenarioD_B

ScenarioD_Result ==
    /\ last.status = "ok"
    /\ ResultView.rows = << <<IntV(2), StrV(<<"y">>), IntV(2), StrV(<<"z">>)>> >>
    /\ ResultView.columns = <<T_id, T_val, WithSuffix(T_id), T_score>>

\* C10 as stated: the columns of a join are the left names followed by the
\* right names, a right name carrying the suffix exactly when it equals a left
\* name.
C10_AsStated ==
    /\ Called("join") =>
         LET left == SourceView(1).columns
             right == SourceView(2).columns
         IN  ResultView.columns =
                left \o [k \in 1..Len(right) |->
                           IF \E j \in 1..Len(left) : left[j] = right[k]
                           THEN WithSuffix(right[k]) ELSE right[k]]
    /\ ScenarioD => ScenarioD_Result

\* C10: the columns of a join are the left names in order followed by one name
\* per right column in order; a right name carries the suffix "_right" exactly
\* when it equals a left name or a name already given to an earlier right
\* column of the result (the join column included).  The inner join of
\* A = [(1,"x"),(2,"y")] with B = [(2,"z")] on id is the one row (2,"y",2,"z")
\* under the columns id, val, id_right, score.
C10_JoinColumns ==
    /\ Called("join") =>
         LET left == SourceView(1).columns
             right == SourceView(2).columns
             out == ResultView.columns
             n == Len(left)
         IN  /\ Len(out) = n + Len(right)
             /\ SubSeq(out, 1, n) = left
             /\ \A k \in 1..Len(right) :
                  out[n + k] = IF \E j \in 1..(n + k - 1) : out[j] = right[k]
                               THEN WithSuffix(right[k]) ELSE right[k]
    /\ ScenarioD => ScenarioD_Result

\* the join of scenario D returned
C10_Witness == ScenarioD /\ last.status = "ok"

(***************************************************************************)
(* One operator on drawn inputs                                            *)
(***************************************************************************)

\* the number of rows of a drawn DataFrame
MaxRows == 3

\* the DataFrame with the given columns and rows, as the only object of a heap
HeapOf(columns, rows) ==
    rows \o << [i \in 1..Len(rows) |-> i], columns >>

TableOf(rows) == [data |-> Len(rows) + 1, columns |-> Len(rows) + 2]

InitDrawn(columns, rows, inputs) ==
    /\ heap = HeapOf(columns, rows)
    /\ tables = <<TableOf(rows)>>
    /\ parser = [delimiter |-> ","]
    /\ last = [op |-> "init", status |-> "ok", n |-> 0, src |-> <<>>, args |-> <<>>]
    /\ given = inputs

(***************************************************************************)
(* sort_values on a drawn DataFrame: the sort column holds None, numbers   *)
(* and text, the second column the position of the row                     *)
(***************************************************************************)

SortKeys == {None, IntV(1), IntV(2), FloatV(1, 1), StrV(<<"a">>)}

InitSort ==
    \E n \in 0..MaxRows : \E keys \in [1..n -> SortKeys] :
        InitDrawn(<<T_id, T_val>>, [i \in 1..n |-> <<keys[i], IntV(i)>>], <<>>)

NextSort == last.n = 0 /\ \E ascending \in BOOLEAN : SortValuesCall(1, T_id, ascending)

SpecSort == InitSort /\ [][NextSort]_vars

\* C6: in the DataFrame sort_values returns, no row whose sort value is None
\* comes before a row whose sort value is not None, whatever the direction.
C6_NoneLast ==
    Called("sort_values") =>
        \A i, j \in 1..Len(ResultView.rows) :
            (IsNone(ResultView.rows[i][1]) /\ ~IsNone(ResultView.rows[j][1])) => j < i

\* the number of times row occurs in rows
Count(rows, row) == Cardinality({i \in 1..Len(rows) : rows[i] = row})

\* C7: sort_values returns the source rows, each as often as in the source,
\* and two rows with equal sort values are in the order they have in the
\* source, ascending and descending.
C7_StablePermutation ==
    Called("sort_values") =>
        LET src == SourceView(1).rows
            out == ResultView.rows
            Pos(row) == CHOOSE i \in 1..Len(src) : src[i] = row
        IN  /\ Len(out) = Len(src)
            /\ \A i \in 1..Len(src) : Count(out, src[i]) = Count(src, src[i])
            /\ \A i, j \in 1..Len(out) :
                 (i < j /\ PyEq(out[i][1], out[j][1])) => Pos(out[i]) < Pos(out[j])

\* a descending sort of rows with a tie between two sort values returned
C7_Witness ==
    /\ Called("sort_values") /\ last.args[2] = FALSE
    /\ \E i, j \in 1..Len(ResultView.rows) :
         /\ i < j /\ PyEq(ResultView.rows[i][1], ResultView.rows[j][1])
         /\ ~IsNone(ResultView.rows[i][1])
    /\ \E i, j \in 1..Len(ResultView.rows) : ~PyEq(ResultView.rows[i][1], ResultView.rows[j][1])

(***************************************************************************)
(* filter(P).filter(Q) and filter(P and Q) on a drawn DataFrame            *)
(***************************************************************************)

\* the rows a drawn DataFrame is made of, each at most once: (id, val)
FilterRows ==
    { <<None, StrV(<<"y">>)>>, <<IntV(1), StrV(<<"x">>)>>,
      <<IntV(2), StrV(<<"x">>)>>, <<IntV(2), StrV(<<"y">>)>> }

\* predicates of the grammar: comparisons joined by and / or
Predicates ==
    { <<"i", "d", " ", ">", " ", "1">>,
      <<"v", "a", "l", " ", "=", "=", " ", "x">>,
      <<"i", "d", " ", "!", "=", " ", "2">>,
      <<"i", "d", " ", ">", "=", " ", "2", " ", "o", "r", " ", "v", "a", "l", " ", "=", "=", " ", "x">>,
      <<"i", "d", " ", "<", "=", " ", "1", " ", "A", "N", "D", " ", "v", "a", "l", " ", "!", "=", " ", "y">>,
      <<"v", "a", "l", " ", "=", " ", "y", " ", "o", "r", " ", "i", "d", " ", "<", " ", "2", " ", "a", "n", "d", " ", "i", "d", " ", "=", "=", " ", "1">>,
      <<"i", "d", " ", "=", " ", "N", "o", "n", "e", " ", "O", "r", " ", "v", "a", "l", " ", ">", " ", "x">>,
      <<"v", "a", "l", " ", ">", " ", "1">> }

AndWord == <<" ", "a", "n", "d", " ">>

InitFilter ==
    \E n \in 0..MaxRows : \E rows \in [1..n -> FilterRows] :
        /\ \A i, j \in 1..n : rows[i] = rows[j] => i = j
        /\ \E P \in Predicates, Q \in Predicates :
             InitDrawn(<<T_id, T_val>>, rows, <<P, Q>>)

NextFilter ==
    \/ last.n = 0 /\ Filter(1, given[1])
    \/ last.n = 1 /\ Filter(2, given[2])
    \/ last.n = 2 /\ Filter(1, given[1] \o AndWord \o given[2])

SpecFilter == InitFilter /\ [][NextFilter]_vars

\* C5: t.filter(P).filter(Q) and t.filter(P + " and " + Q) have the same
\* columns and the same rows in the same order.
C5_FilterTwice ==
    (last.n = 3 /\ last.status = "ok") =>
        /\ Len(tables) = 4
        /\ View(heap, tables[3]) = View(heap, tables[4])

\* both filters kept some rows and dropped others
C5_Witness ==
    /\ last.n = 3 /\ Len(tables) = 4
    /\ Len(View(heap, tables[2]).rows) < Len(View(heap, tables[1]).rows)
    /\ Len(View(heap, tables[3]).rows) < Len(View(heap, tables[2]).rows)
    /\ Len(View(heap, tables[3]).rows) > 0

(***************************************************************************)
(* parse_line on a drawn line                                              *)
(***************************************************************************)

\* the length of a drawn line
MaxLine == 4

LineChars == {"a", "1", " ", ",", ";", "\"", "\\"}

InitLine ==
    \E n \in 0..MaxLine : \E line \in [1..n -> LineChars] : \E d \in {",", ";"} :
        /\ heap = <<>>
        /\ tables = <<>>
        /\ parser = [delimiter |-> d]
        /\ last = [op |-> "init", status |-> "ok", n |-> 0, src |-> <<>>, args |-> <<>>]
        /\ given = line

\* parser.parse_line(line)
ParseLineCall(line) ==
    /\ last' = [op |-> "parse_line", status |-> "ok", n |-> last.n + 1, src |-> <<>>,
                args |-> <<line, parser.delimiter>>,
                ret |-> parse_line(line, parser.delimiter)]
    /\ UNCHANGED <<heap, tables, parser, given>>

\* parser.detect_delimiter(line) after parser.parse_line(line): the fields
\* parse_line returned are kept, with the count made for each candidate
DetectDelimiterCall(line) ==
    /\ last' = [op |-> "detect_delimiter", status |-> "ok", n |-> last.n + 1, src |-> <<>>,
                args |-> <<line, parser.delimiter>>,
                ret |-> detect_delimiter(line),
                fields |-> last.ret,
                counts |-> [k \in 1..Len(delimiters) |->
                               DelimiterCount(line, delimiters[k], 1, FALSE)]]
    /\ UNCHANGED <<heap, tables, parser, given>>

NextLine ==
    \/ last.n = 0 /\ ParseLineCall(given)
    \/ last.n = 1 /\ DetectDelimiterCall(given)

SpecLine == InitLine /\ [][NextLine]_vars

\* d.join(str(field) for field in fields)
RECURSIVE Rejoin(_, _)
Rejoin(fields, d) ==
    IF fields = <<>> THEN <<>>
    ELSE IF Len(fields) = 1 THEN PyStr(fields[1])
    ELSE PyStr(fields[1]) \o <<d>> \o Rejoin(Tail(fields), d)

\* C4: the fields parse_line returns for a line without a quote character,
\* joined with the delimiter, are the line.
C4_RoundTrip ==
    (last.op = "parse_line" /\ ~Contains(last.args[1], <<quote_char>>))
        => Rejoin(last.ret, last.args[2]) = last.args[1]

(***************************************************************************)
(* Further properties of the call sequences                                *)
(***************************************************************************)

\* C11: an inner join returns at most |left| * |right| rows and a left join
\* returns at least |left| rows.
C11_JoinRowCount ==
    Called("join") =>
        /\ last.args[2] = "inner" =>
             Len(ResultView.rows) <= Len(SourceView(1).rows) * Len(SourceView(2).rows)
        /\ last.args[2] = "left" => Len(ResultView.rows) >= Len(SourceView(1).rows)

\* a left join that returned more rows than the left DataFrame has, one of
\* them for a left row that no right row matches
C11_Witness ==
    /\ Called("join") /\ last.args[2] = "left"
    /\ Len(SourceView(2).rows) > 0
    /\ Len(ResultView.rows) > Len(SourceView(1).rows)
    /\ \E i \in 1..Len(ResultView.rows) :
         \A k \in (Len(SourceView(1).columns) + 1)..Len(ResultView.columns) :
            IsNone(ResultView.rows[i][k])

\* the functions _calculate_agg knows
AggFunctions == {F_count, F_sum, F_mean, F_avg, F_max, F_min, F_median, F_std}

\* the last call is agg on a DataFrame that has every group-by column
AggCalled == last.op = "agg" /\ \A k \in 1..Len(last.args[1]) : In(last.args[1][k], SourceView(1).columns)

\* the agg_spec of the last call names a column the source does not have
AggColumnAbsent ==
    \E k \in 1..Len(last.args[2]) : ~In(last.args[2][k][1], SourceView(1).columns)

\* the agg_spec of the last call asks for a function that is not known
AggFunctionUnknown ==
    \E k \in 1..Len(last.args[2]) : \E f \in 1..Len(last.args[2][k][2]) :
        last.args[2][k][2][f] \notin AggFunctions

\* C12: agg raises KeyError when a column of the agg_spec is not in the source
\* and ValueError when a requested function is not one of the eight known ones,
\* whatever the rows of the source are; it returns no DataFrame then.
C12_AggRaises ==
    AggCalled =>
        /\ AggColumnAbsent => last.status = "KeyError"
        /\ (AggFunctionUnknown /\ ~AggColumnAbsent) => last.status = "ValueError"

\* the columns of the k-th DataFrame the call just made was made on
CallColumns(k) == View(heap, tables[last'.src[k]]).columns

\* C13: select with a name the DataFrame does not have, sort_values by a
\* column it does not have and join on a column one of the two sides does not
\* have raise KeyError; join with a how other than "inner" and "left" (and on
\* present on both sides) raises ValueError; no DataFrame is returned then,
\* whatever rows the DataFrames have.
C13_ColumnChecks ==
    [][ /\ (last'.op = "select" /\ \E k \in 1..Len(last'.args[1]) :
                                      ~In(last'.args[1][k], CallColumns(1)))
            => (last'.status = "KeyError" /\ tables' = tables)
        /\ (last'.op = "sort_values" /\ ~In(last'.args[1], CallColumns(1)))
            => (last'.status = "KeyError" /\ tables' = tables)
        /\ (last'.op = "join" /\ (~In(last'.args[1], CallColumns(1)) \/ ~In(last'.args[1], CallColumns(2))))
            => (last'.status = "KeyError" /\ tables' = tables)
        /\ (last'.op = "join" /\ In(last'.args[1], CallColumns(1)) /\ In(last'.args[1], CallColumns(2))
              /\ last'.args[2] \notin {"inner", "left"})
            => (last'.status = "ValueError" /\ tables' = tables) ]_vars

\* a join with an unsupported how, on a column both sides have, of a DataFrame
\* with rows and a DataFrame without rows, raised
C13_Witness ==
    /\ last.op = "join" /\ last.status = "ValueError"
    /\ In(last.args[1], SourceView(1).columns) /\ In(last.args[1], SourceView(2).columns)
    /\ SourceView(1).rows # <<>> /\ SourceView(2).rows = <<>>

(***************************************************************************)
(* group_by(by).agg(agg_spec) on a drawn DataFrame with the columns         *)
(* Platform and Sales                                                      *)
(***************************************************************************)

T_Platform == StrV(<<"P", "l", "a", "t", "f", "o", "r", "m">>)

T_Sales == StrV(<<"S", "a", "l", "e", "s">>)

\* the rows a drawn DataFrame is made of: (Platform, Sales)
AggRows ==
    { <<StrV(<<"P", "C">>), FloatV(1, 1)>>, <<StrV(<<"P", "C">>), FloatV(2, 1)>>,
      <<StrV(<<"S", "N", "E", "S">>), FloatV(3, 1)>>, <<StrV(<<"S", "N", "E", "S">>), None>>,
      <<StrV(<<"P", "C">>), IntV(1)>>, <<None, None>> }

\* the calls made: (by, agg_spec)
AggCalls ==
    { << <<T_Platform>>, << <<T_Sales, <<F_sum, F_count>>>> >> >>,
      << <<T_Platform, T_Sales>>, << <<T_Sales, <<F_count, F_sum, F_std>>>> >> >>,
      << <<T_Sales>>, << <<T_Platform, <<F_count>>>>, <<T_Sales, <<F_sum>>>> >> >>,
      << <<T_Platform>>, << <<T_Sales, <<F_mean, F_max, F_min, F_median, F_avg>>>> >> >> }

InitAgg ==
    \E n \in 0..MaxRows : \E rows \in [1..n -> AggRows] : \E call \in AggCalls :
        InitDrawn(<<T_Platform, T_Sales>>, rows, call)

NextAgg == last.n = 0 /\ GroupByAgg(1, given[1], given[2])

SpecAgg == InitAgg /\ [][NextAgg]_vars

\* the result of agg has the group-by columns followed by one column per
\* request, and one row per distinct key of the source; in that row the sum
\* and count columns hold the sum and the number of the non-None values of the
\* group, or empty_sum and empty_count when the group has no such value
AggResult(empty_sum, empty_count) ==
    Called("agg") =>
        LET S == SourceView(1).rows
            cols == SourceView(1).columns
            by == last.args[1]
            nb == Len(last.args[1])
            req == Requests(last.args[2])
            out == ResultView.rows
            Key(row) == [k \in 1..nb |-> row[Index(cols, by[k])]]
            Values(o, c) ==
                LET InGroup(row) == SameKey(Key(row), SubSeq(o, 1, nb)) /\ ~IsNone(row[Index(cols, c)])
                    kept == SelectSeq(S, InGroup)
                IN  [i \in 1..Len(kept) |-> kept[i][Index(cols, c)]]
        IN  /\ ResultView.columns = by \o [k \in 1..Len(req) |-> AggName(req[k][1], req[k][2])]
            /\ \A i \in 1..Len(S) :
                 Cardinality({j \in 1..Len(out) : SameKey(Key(S[i]), SubSeq(out[j], 1, nb))}) = 1
            /\ \A j \in 1..Len(out) : \E i \in 1..Len(S) : SameKey(Key(S[i]), SubSeq(out[j], 1, nb))
            /\ \A j \in 1..Len(out) : \A k \in 1..Len(req) :
                 /\ req[k][2] = F_sum =>
                      out[j][nb + k] = IF Values(out[j], req[k][1]) = <<>> THEN empty_sum
                                       ELSE PySum(Values(out[j], req[k][1]))
                 /\ req[k][2] = F_count =>
                      out[j][nb + k] = IF Values(out[j], req[k][1]) = <<>> THEN empty_count
                                       ELSE IntV(Len(Values(out[j], req[k][1])))

\* scenario B: group_by("Platform").agg({"Sales": ["sum", "count"]}) on the
\* rows (PC, 1.0), (PC, 2.0), (SNES, 3.0)
ScenarioB ==
    /\ last.op = "agg"
    /\ last.args = << <<T_Platform>>, << <<T_Sales, <<F_sum, F_count>>>> >> >>
    /\ SourceView(1).rows = << <<StrV(<<"P", "C">>), FloatV(1, 1)>>,
                               <<StrV(<<"P", "C">>), FloatV(2, 1)>>,
                               <<StrV(<<"S", "N", "E", "S">>), FloatV(3, 1)>> >>

ScenarioB_Result ==
    /\ last.status = "ok"
    /\ ResultView.rows = << <<StrV(<<"P", "C">>), FloatV(3, 1), IntV(2)>>,
                            <<StrV(<<"S", "N", "E", "S">>), FloatV(3, 1), IntV(1)>> >>

\* C14 as stated: the sum and the count of a group with no non-None value
\* are the sum and the number of none, 0.
C14_AsStated == AggResult(IntV(0), IntV(0)) /\ (ScenarioB => ScenarioB_Result)

\* C14: agg returns one row per distinct key of the source under the group-by
\* columns followed by one <column>_<function> column per request in request
\* order; <c>_sum is the sum and <c>_count the number of the group's non-None
\* values of c when the group has such a value, and both are None when it has
\* none.  Scenario B gives (PC, 3.0, 2) and (SNES, 3.0, 1).
C14_GroupRows == AggResult(None, None) /\ (ScenarioB => ScenarioB_Result)

\* scenario B returned
C14_Witness == ScenarioB /\ last.status = "ok" /\ Len(ResultView.rows) = 2

(***************************************************************************)
(* parse_file called several times on one parser object                    *)
(***************************************************************************)

\* the number of parse_file calls made on the parser
MaxIngests == 3

\* the files read: those of Files, a file whose delimiter is the semicolon
\* (id;val / 1;x), a file with a line of white space (a,b,c / space tab / 1)
\* and a file whose header cells read as a missing value and a number
\* (NA,2020 / 1,2)
FilesRead ==
    Files \o << << <<"i", "d", ";", "v", "a", "l", "\n">>, <<"1", ";", "x", "\n">> >>,
                << <<"a", ",", "b", ",", "c", "\n">>, <<" ", "\t", "\n">>, <<"1", "\n">> >>,
                << <<"N", "A", ",", "2", "0", "2", "0", "\n">>, <<"1", ",", "2", "\n">> >> >>

\* parser.parse_file(f, has_header, auto_detect_delimiter): the dict returned
\* is kept, and the parser keeps the delimiter the call leaves in it
ParseFileCall(f, has_header, auto_detect) ==
    /\ last.n < MaxIngests
    /\ \E csv_data \in {parse_file(parser.delimiter, FilesRead[f], has_header, auto_detect)} :
         /\ parser' = [delimiter |-> csv_data.self_delimiter]
         /\ last' = [op |-> "parse_file", status |-> "ok", n |-> last.n + 1, src |-> <<>>,
                     args |-> <<f, has_header, auto_detect>>, ret |-> csv_data]
    /\ UNCHANGED <<heap, tables, given>>

NextIngest ==
    \E f \in 1..Len(FilesRead), has_header \in BOOLEAN, auto_detect \in BOOLEAN :
        ParseFileCall(f, has_header, auto_detect)

SpecIngest == Init /\ [][NextIngest]_vars

\* C15: the dict parse_file returns has the keys headers, data, delimiter and
\* rows_parsed, for an empty file too, and rows_parsed is the number of rows
\* in data.
C15_ResultKeys ==
    last.op = "parse_file" =>
        /\ last.ret.keys = {"headers", "data", "delimiter", "rows_parsed"}
        /\ last.ret.rows_parsed = Len(last.ret.data)

\* the dict a parser made with the default delimiter returns for its first call
FirstCall(f, has_header, auto_detect) == parse_file(",", FilesRead[f], has_header, auto_detect)

\* C16: what parse_file returns for a file is what it returns for that file
\* and those flags on a parser that has read no file before, also when the
\* parser has read other files before.
C16_OrderIndependent ==
    last.op = "parse_file" =>
        /\ last.ret.headers = FirstCall(last.args[1], last.args[2], last.args[3]).headers
        /\ last.ret.data = FirstCall(last.args[1], last.args[2], last.args[3]).data

(***************************************************************************)
(* clean_field on drawn fields                                             *)
(***************************************************************************)

\* the length of the fields drawn from FieldChars
MaxField == 3

FieldChars == {"1", "0", "-", "+", " ", "N", "a", "/", "."}

\* the fields of the coercion examples
FieldWords ==
    { <<"S", "N", "E", "S">>,
      <<" ", "S", "N", "E", "S">>,
      <<"T", "B", "D">>,
      <<" ", "t", "b", "d", " ">>,
      <<"u", "n", "k", "n", "o", "w", "n">>,
      <<"U", "n", "k", "n", "o", "w", "n">>,
      <<"N", "U", "L", "L">>,
      <<"N", "o", "n", "e">>,
      <<"n", "u", "l", "l", " ">>,
      <<"1", "2", "3">>,
      <<" ", "1", "2", "3">>,
      <<"-", "5">>,
      <<"+", "1", "2">>,
      <<"1", ".", "5">>,
      <<"1", "e", "3">>,
      <<"N", "/", "A">> }

InitField ==
    \E field \in FieldWords \cup UNION {[1..n -> FieldChars] : n \in 0..MaxField} :
        /\ heap = <<>>
        /\ tables = <<>>
        /\ parser = [delimiter |-> ","]
        /\ last = [op |-> "init", status |-> "ok", n |-> 0, src |-> <<>>, args |-> <<>>]
        /\ given = field

\* parser.clean_field(field)
CleanFieldCall(field) ==
    /\ last' = [op |-> "clean_field", status |-> "ok", n |-> last.n + 1, src |-> <<>>,
                args |-> <<field>>, ret |-> clean_field(field)]
    /\ UNCHANGED <<heap, tables, parser, given>>

NextField == last.n = 0 /\ CleanFieldCall(given)

SpecField == InitField /\ [][NextField]_vars

\* the field of the last clean_field call, trimmed
Trimmed == Strip(last.args[1])

\* C17: clean_field returns None for a field whose trimmed, lower-cased text
\* is a missing value, the integer of that value for a field whose trimmed
\* text is made of decimal digits, and the trimmed text itself for a field
\* with no digit in it that is not a missing value.
C17_Coercion ==
    last.op = "clean_field" =>
        /\ Lower(Trimmed) \in {<<>>, <<"n", "/", "a">>, <<"n", "a">>, <<"n", "u", "l", "l">>,
                               <<"n", "o", "n", "e">>, <<"u", "n", "k", "n", "o", "w", "n">>,
                               <<"t", "b", "d">>}
              => last.ret = None
        /\ (Trimmed # <<>> /\ \A i \in 1..Len(Trimmed) : IsDigit(Trimmed[i]))
              => last.ret = IntV(DigitsValue(Trimmed))
        /\ (/\ Lower(Trimmed) \notin MissingValues
            /\ \A i \in 1..Len(Trimmed) : ~IsDigit(Trimmed[i]))
              => last.ret = StrV(Trimmed)

\* clean_field has returned None for N/a, 123 for " 123" or SNES for SNES
C17_Witness ==
    /\ last.op = "clean_field"
    /\ \/ last.args[1] = <<"N", "/", "a">> /\ last.ret = None
       \/ last.args[1] = <<" ", "1", "2", "3">> /\ last.ret = IntV(123)
       \/ last.args[1] = <<"S", "N", "E", "S">> /\ last.ret = StrV(<<"S", "N", "E", "S">>)

\* C20: clean_field returns the integer of that value for a field made of an
\* optional sign followed by decimal digits only.
C20_SignedInteger ==
    (/\ last.op = "clean_field"
     /\ Len(last.args[1]) >= 2
     /\ last.args[1][1] \in {"+", "-"}
     /\ \A i \in 2..Len(last.args[1]) : IsDigit(last.args[1][i]))
        => last.ret = IntV((IF last.args[1][1] = "-" THEN -1 ELSE 1)
                           * DigitsValue(Tail(last.args[1])))

(***************************************************************************)
(* select applied to its own result                                        *)
(***************************************************************************)

\* C18: a select of the DataFrame the select before it returned, with the same
\* list of columns, returns the same columns and the same rows, and those
\* columns are the list asked for.
C18_SelectTwice ==
    [][ (/\ Called("select")
         /\ last'.op = "select" /\ last'.status = "ok"
         /\ last'.src = <<Len(tables)>>
         /\ last'.args = last.args)
        => /\ View(heap', tables'[Len(tables')]) = ResultView
           /\ View(heap', tables'[Len(tables')]).columns = last.args[1] ]_vars

\* a select of columns val, id has returned a DataFrame with rows that differ,
\* equal to its source, whose columns were val, id already
C18_Witness ==
    /\ Called("select")
    /\ last.args[1] = <<T_val, T_id>>
    /\ SourceView(1).columns = <<T_val, T_id>>
    /\ Len(ResultView.rows) >= 2
    /\ ResultView.rows[1] # ResultView.rows[2]
    /\ ResultView = SourceView(1)

(***************************************************************************)
(* filter comparing a text with a number                                   *)
(***************************************************************************)

\* C19: the filter val > 1 keeps no row whose val is a text.
C19_MismatchOrdering ==
    (/\ last.n >= 1
     /\ given[1] = <<"v", "a", "l", " ", ">", " ", "1">>
     /\ Len(tables) >= 2)
        => \A i \in 1..Len(View(heap, tables[2]).rows) :
              View(heap, tables[2]).rows[i][2].t # "str"

(***************************************************************************)
(* filter with one comparison on a DataFrame of one drawn row              *)
(***************************************************************************)

CompareValues == {None, IntV(1), IntV(2), StrV(<<"x">>)}

\* the operands written in the comparisons
CompareOperands == {<<"i", "d">>, <<"v", "a", "l">>, <<"1">>, <<"x">>}

\* left op right, as the text of a condition
Clause(left, op, right) ==
    [left |-> left, op |-> op, right |-> right,
     text |-> left \o <<" ">> \o op \o <<" ">> \o right]

\* texts that are no comparison: no operator, a left operand that is no
\* column, an operator that occurs twice
Malformed ==
    { [left |-> <<>>, op |-> <<>>, right |-> <<>>, text |-> text] :
        text \in { <<>>,
                    <<"i", "d">>,
                    <<"i", "d", " ", "1">>,
                    <<"z", "z", " ", ">", " ", "1">>,
                    <<"1", " ", "<", " ", "i", "d">>,
                    <<"x", " ", "=", "=", " ", "v", "a", "l">>,
                    <<"i", "d", " ", ">", " ", "1", " ", ">", " ", "0">>,
                    <<"i", "d", " ", "=", "=", " ", "1", " ", "=", "=", " ", "1">>,
                    <<"i", "d", " ", ">", "=", " ", "0", " ", ">", "=", " ", "0">>,
                    <<"v", "a", "l", " ", "!", "=", " ", "y", " ", "!", "=", " ", "z">>,
                    <<"i", "d", " ", "=", " ", "1", " ", "=", " ", "1">>,
                    <<"i", "d", " ", ">", ">", " ", "0">> } }

Clauses ==
    { Clause(left, operators[k], right) :
        left \in {<<"i", "d">>, <<"v", "a", "l">>}, k \in 1..Len(operators),
        right \in CompareOperands }

InitCompare ==
    \E a \in CompareValues, b \in CompareValues : \E c \in Clauses \cup Malformed :
        InitDrawn(<<T_id, T_val>>, << <<a, b>> >>, c)

NextCompare == last.n = 0 /\ Filter(1, given.text)

SpecCompare == InitCompare /\ [][NextCompare]_vars

\* the row of the source, and whether the filter kept it
TheRow == View(heap, tables[1]).rows[1]

Kept == Len(tables) = 2 /\ View(heap, tables[2]).rows = <<TheRow>>

\* the operand is the name of a column whose value in the row is None
IsNull(operand) ==
    \/ operand = <<"i", "d">> /\ TheRow[1] = None
    \/ operand = <<"v", "a", "l">> /\ TheRow[2] = None

\* C21: with an operand that is None, == and = keep the row exactly when both
\* operands are None, != keeps it exactly when one operand is None, and >, <,
\* >=, <= do not keep it.
C21_NullComparison ==
    (/\ Called("filter")
     /\ given.op \in {<<"=", "=">>, <<"=">>, <<"!", "=">>, <<">">>, <<"<">>, <<">", "=">>, <<"<", "=">>}
     /\ IsNull(given.left) \/ IsNull(given.right))
        => Kept = CASE given.op \in {<<"=", "=">>, <<"=">>} ->
                          IsNull(given.left) /\ IsNull(given.right)
                    [] given.op = <<"!", "=">> ->
                          IsNull(given.left) # IsNull(given.right)
                    [] OTHER -> FALSE

\* id == val has kept a row whose id and val are None
C21_Witness ==
    /\ Called("filter")
    /\ given.text = <<"i", "d", " ", "=", "=", " ", "v", "a", "l">>
    /\ TheRow = <<None, None>>
    /\ Kept

(***************************************************************************)
(* filter with and / or                                                    *)
(***************************************************************************)

\* the rule for a predicate text: every part of an "and", else some part of
\* an "or", else one comparison
RECURSIVE Holds(_, _, _)
Holds(text, columns, row) ==
    IF Contains(Lower(text), <<" ", "a", "n", "d", " ">>)
    THEN \A i \in 1..Len(ReSplit(text, <<"a", "n", "d">>)) :
            Holds(Strip(ReSplit(text, <<"a", "n", "d">>)[i]), columns, row)
    ELSE IF Contains(Lower(text), <<" ", "o", "r", " ">>)
    THEN \E i \in 1..Len(ReSplit(text, <<"o", "r">>)) :
            Holds(Strip(ReSplit(text, <<"o", "r">>)[i]), columns, row)
    ELSE single_condition(text, columns, row, 1)

\* C22: the rows a filter returns are the rows of its source for which the
\* predicate holds by that rule, in the order of the source.
C22_AndOr ==
    (last.n >= 1 /\ Len(tables) >= 2) =>
        View(heap, tables[2]).rows =
            SelectSeq(View(heap, tables[1]).rows,
                      LAMBDA row : Holds(given[1], <<T_id, T_val>>, row))

\* val = y or id < 2 and id == 1 has dropped the row 2, y, which its first
\* part accepts, and kept the row 1, x
C22_Witness ==
    /\ last.n >= 1 /\ Len(tables) >= 2
    /\ given[1] = <<"v", "a", "l", " ", "=", " ", "y", " ", "o", "r", " ", "i", "d", " ", "<", " ", "2", " ", "a", "n", "d", " ", "i", "d", " ", "=", "=", " ", "1">>
    /\ \E i \in 1..Len(View(heap, tables[1]).rows) :
          View(heap, tables[1]).rows[i] = <<IntV(2), StrV(<<"y">>)>>
    /\ View(heap, tables[2]).rows = << <<IntV(1), StrV(<<"x">>)>> >>

GroupValues(o, c) ==
    LET cols == SourceView(1).columns
        by == last.args[1]
        Key(row) == [k \in 1..Len(by) |-> row[Index(cols, by[k])]]
        InGroup(row) == SameKey(Key(row), SubSeq(o, 1, Len(by))) /\ row[Index(cols, c)] # None
        Column(kept) == [i \in 1..Len(kept) |-> kept[i][Index(cols, c)]]
    IN  Column(SelectSeq(SourceView(1).rows, InGroup))

\* C24: agg of numeric columns returns, whatever None values the groups
\* hold; each aggregate of a result row is None when the group has no value
\* other than None in the column, count included, and otherwise the function
\* of the group's values other than None.
C24_NonNullSample ==
    last.op = "agg" =>
        /\ last.status = "ok"
        /\ \A j \in 1..Len(ResultView.rows) : \A k \in 1..Len(Requests(last.args[2])) :
              ResultView.rows[j][Len(last.args[1]) + k] =
                  IF GroupValues(ResultView.rows[j], Requests(last.args[2])[k][1]) = <<>>
                  THEN None
                  ELSE calculate_agg(GroupValues(ResultView.rows[j], Requests(last.args[2])[k][1]),
                                     Requests(last.args[2])[k][2]).value

\* mean, max, min, median and avg of Sales by Platform on a source with the
\* rows (SNES, 3.0), (SNES, None) and (None, None): 3.0 for SNES, None for the
\* group of the key None
C24_Witness ==
    /\ Called("agg")
    /\ last.args[2] = << <<T_Sales, <<F_mean, F_max, F_min, F_median, F_avg>>>> >>
    /\ SourceView(1).rows = << <<StrV(<<"S", "N", "E", "S">>), FloatV(3, 1)>>,
                               <<StrV(<<"S", "N", "E", "S">>), None>>,
                               <<None, None>> >>
    /\ ResultView.rows = << <<StrV(<<"S", "N", "E", "S">>), FloatV(3, 1), FloatV(3, 1),
                              FloatV(3, 1), FloatV(3, 1), FloatV(3, 1)>>,
                            <<None, None, None, None, None, None>> >>

(***************************************************************************)
(* detect_delimiter and parse_line on the same line                        *)
(***************************************************************************)

\* C25: detect_delimiter returns the first candidate whose count is the
\* highest, and on a line that is not blank its count for the parser's
\* delimiter is the number of separators parse_line found, one less than the
\* number of fields.
C25_DetectorCounts ==
    last.op = "detect_delimiter" =>
        /\ \E k \in 1..4 :
              /\ last.ret = <<",", ";", "\t", "|">>[k]
              /\ \A j \in 1..4 : last.counts[j] <= last.counts[k]
              /\ \A j \in 1..(k - 1) : last.counts[j] < last.counts[k]
        /\ \A k \in 1..4 :
              (<<",", ";", "\t", "|">>[k] = last.args[2] /\ last.fields # <<>>)
                  => last.counts[k] = Len(last.fields) - 1

(***************************************************************************)
(* the rows parse_file returns for the data lines of a file                *)
(***************************************************************************)

\* the data lines of the file of the last parse_file call that hold a
\* character other than white space, in file order
DataLines ==
    LET lines == FilesRead[last.args[1]]
        NotBlank(line) == \E i \in 1..Len(line) : line[i] \notin {" ", "\t", "\n", "\r"}
    IN  SelectSeq(SubSeq(lines, IF last.args[2] THEN 2 ELSE 1, Len(lines)), NotBlank)

\* C26: the i-th row parse_file returns is made of the fields of the i-th
\* data line: followed by None up to the number of headers when they are
\* fewer, cut to the first len(headers) when they are more, and as they are
\* otherwise.
C26_RowsFitHeaders ==
    (last.op = "parse_file" /\ FilesRead[last.args[1]] # <<>>) =>
        /\ Len(last.ret.data) = Len(DataLines)
        /\ \A i \in 1..Len(last.ret.data) :
              /\ Len(last.ret.data[i]) = Len(last.ret.headers)
              /\ \A k \in 1..Len(last.ret.headers) :
                    last.ret.data[i][k] =
                        IF k <= Len(parse_line(DataLines[i], last.ret.delimiter))
                        THEN parse_line(DataLines[i], last.ret.delimiter)[k]
                        ELSE None

\* the file with a short and a long data line has been read with its header:
\* (2, None), (None, x), (2, q)
C26_Witness ==
    /\ last.op = "parse_file"
    /\ last.args = <<5, TRUE, TRUE>>
    /\ last.ret.data = << <<IntV(2), None>>, <<None, StrV(<<"x">>)>>, <<IntV(2), StrV(<<"q">>)>> >>

\* C30: parse_file returns as many rows as the file has data lines that are
\* not blank, and none of them is the row of a blank line.
C30_BlankLines ==
    (last.op = "parse_file" /\ FilesRead[last.args[1]] # <<>>) =>
        /\ last.ret.rows_parsed = Len(DataLines)
        /\ Len(last.ret.data) = Len(DataLines)

\* the file with a blank line among its four data lines has been read: three
\* rows
C30_Witness ==
    /\ last.op = "parse_file"
    /\ last.args[1] = 5 /\ last.args[2]
    /\ Len(FilesRead[5]) = 5
    /\ Len(last.ret.data) = 3

(***************************************************************************)
(* the column names parse_file returns                                     *)
(***************************************************************************)

\* C28: every column name parse_file returns is a text, and with a header
\* line without quote characters it is the text of the header cell,
\* trimmed.
C28_HeaderText ==
    (last.op = "parse_file" /\ FilesRead[last.args[1]] # <<>>) =>
        /\ \A k \in 1..Len(last.ret.headers) : last.ret.headers[k].t = "str"
        /\ (last.args[2] /\ ~Contains(FilesRead[last.args[1]][1], <<"\"">>))
              => \A k \in 1..Len(last.ret.headers) :
                    last.ret.headers[k] =
                        StrV(Strip(Split(FilesRead[last.args[1]][1], <<last.ret.delimiter>>)[k]))

(***************************************************************************)
(* join on a column that holds None                                        *)
(***************************************************************************)

\* the indices of the rows whose value at idx is None
NullKeys(rows, idx) == {i \in 1..Len(rows) : rows[i][idx] = None}

\* the number of result rows the left rows 1..i account for when a None key
\* is matched by the None keys of the right rows
RECURSIVE RowsUpTo(_, _, _, _, _, _)
RowsUpTo(L, R, li, ri, how, i) ==
    IF i = 0 THEN 0
    ELSE RowsUpTo(L, R, li, ri, how, i - 1)
         + (IF i \notin NullKeys(L, li) THEN BlockSize(L, R, li, ri, how, i)
            ELSE IF NullKeys(R, ri) # {} THEN Cardinality(NullKeys(R, ri))
            ELSE IF how = "left" THEN 1 ELSE 0)

\* C29: a join combines a left row whose join value is None with every right
\* row whose join value is None, in inner and in left joins, and gives the
\* row of an unmatched left row for it only in a left join with no such
\* right row.
C29_NullKeysMatch ==
    Called("join") =>
        LET L == SourceView(1).rows
            R == SourceView(2).rows
            li == Index(SourceView(1).columns, last.args[1])
            ri == Index(SourceView(2).columns, last.args[1])
        IN  /\ \A i \in NullKeys(L, li) : \A j \in NullKeys(R, ri) :
                  \E m \in 1..Len(ResultView.rows) : ResultView.rows[m] = L[i] \o R[j]
            /\ Len(ResultView.rows) = RowsUpTo(L, R, li, ri, last.args[2], Len(L))

\* a join on id of two DataFrames with the row (None, x) has returned the row
\* (None, x, None, x)
C29_Witness ==
    /\ Called("join")
    /\ last.args[1] = T_id
    /\ \E i \in 1..Len(SourceView(1).rows) : SourceView(1).rows[i] = <<None, StrV(<<"x">>)>>
    /\ \E j \in 1..Len(SourceView(2).rows) : SourceView(2).rows[j] = <<None, StrV(<<"x">>)>>
    /\ \E m \in 1..Len(ResultView.rows) :
          ResultView.rows[m] = <<None, StrV(<<"x">>), None, StrV(<<"x">>)>>

(***************************************************************************)
(* DataFrame(data, columns) on drawn rows and columns                      *)
(***************************************************************************)

\* the rows and the column lists a DataFrame is constructed from
ConstructRows == {<<>>, <<IntV(1)>>, <<IntV(1), StrV(<<"x">>)>>}

ConstructColumns == {<<>>, <<T_id>>, <<T_id, T_val>>}

InitConstruct ==
    \E n \in 0..MaxRows : \E rows \in [1..n -> ConstructRows] : \E columns \in ConstructColumns :
        /\ heap = <<>>
        /\ tables = <<>>
        /\ parser = [delimiter |-> ","]
        /\ last = [op |-> "init", status |-> "ok", n |-> 0, src |-> <<>>, args |-> <<>>]
        /\ given = <<rows, columns>>

\* DataFrame(data=rows, columns=columns): the caller's lists are the objects
\* the DataFrame holds
ConstructCall(rows, columns) ==
    /\ \E r \in {DataFrame(heap \o rows \o << [i \in 1..Len(rows) |-> Len(heap) + i], columns >>,
                           Len(heap) + Len(rows) + 1, Len(heap) + Len(rows) + 2)} :
         Returned("DataFrame", r, <<>>, <<rows, columns>>)
    /\ UNCHANGED parser

NextConstruct == last.n = 0 /\ ConstructCall(given[1], given[2])

SpecConstruct == InitConstruct /\ [][NextConstruct]_vars

\* C27: DataFrame(data, columns) raises when a row is not as long as the
\* column list, an empty column list included, so every row of a DataFrame
\* that was constructed is as long as its columns.
C27_ConstructionChecked ==
    last.op = "DataFrame" =>
        /\ (\E i \in 1..Len(given[1]) : Len(given[1][i]) # Len(given[2]))
              => last.status = "ValueError"
        /\ \A t \in 1..Len(tables) :
              \A i \in 1..Len(View(heap, tables[t]).rows) :
                 Len(View(heap, tables[t]).rows[i]) = Len(View(heap, tables[t]).columns)

====
